---- MODULE Spec2Model ----
(***************************************************************************)
(* Verification model of the SekaiTranslatorV parser pipeline: the codec   *)
(* layer (services/encoding_service.py), the per-file state store          *)
(* (models/project_state_store.py), the file-open path                     *)
(* (services/file_ops_service.py), the parser registry and selector        *)
(* (parsers/registry.py, parsers/autodetect.py), the engine adapter        *)
(* (parsers/manager.py) and the plugin installer (parsers/repository.py).  *)
(*                                                                         *)
(* Text is a sequence of Unicode code points, a byte string a sequence of  *)
(* numbers in 0..255.  Python's str and bytes methods are modelled on      *)
(* those sequences by what they compute.                                   *)
(***************************************************************************)
EXTENDS Integers, Sequences, FiniteSets, TLC

(***************************************************************************)
(* Bounds of the model.                                                    *)
(***************************************************************************)
MaxTextLen == 3

MaxBodyLen == 2

MaxRegs == 3

MaxPlugins == 2

MaxCalls == 2

MaxOpens == 2

MaxItems == 2

\* Core processes started, send calls made and threads calling send in one
\* run of the IPC client.
MaxProcs == 2

MaxRequests == 1

Senders == {1, 2}

\* What a request's queue holds: nothing, the core's response to request id
\* read by the reader of process cause, or the synthetic error of
\* _fail_all_pending (its "id" is None), cause being the process whose stop
\* or whose reader thread produced it.
NoMsg == [id |-> 0, status |-> "none", message |-> "", cause |-> 0]

Response(id, cause) == [id |-> id, status |-> "ok", message |-> "", cause |-> cause]

SyntheticError(message, cause) == [id |-> 0, status |-> "error", message |-> message, cause |-> cause]

SendRaises(kind) == [id |-> 0, status |-> kind, message |-> "", cause |-> 0]

\* ParserManager objects made in one run (get_parser_manager, reload_parsers).
MaxManagers == 3

(***************************************************************************)
(* Code points and bytes that occur in the modelled inputs: 97 and 98 are   *)
(* "a" and "b", 233 is U+00E9, 12354 is U+3042, 65279 is U+FEFF.           *)
(***************************************************************************)
CR == 13

LF == 10

QuestionMark == 63

ReplacementChar == 65533

BOM_UTF8 == <<239, 187, 191>>

BOM_UTF16_LE == <<255, 254>>

BOM_UTF16_BE == <<254, 255>>

\* Sequences over S of length 0..n.
SeqUpTo(S, n) == UNION {[1..k -> S] : k \in 0..n}

StartsWith(b, p) == Len(b) >= Len(p) /\ SubSeq(b, 1, Len(p)) = p

\* Python's `needle in haystack` for sequences.
Contains(b, p) == \E i \in 1..(Len(b) - Len(p) + 1) : SubSeq(b, i, i + Len(p) - 1) = p

\* Python's str.replace(old, new): leftmost, non-overlapping, one pass.
RECURSIVE Replace(_, _, _)
Replace(s, old, new) ==
    IF Len(s) = 0 THEN <<>>
    ELSE IF StartsWith(s, old)
         THEN new \o Replace(SubSeq(s, Len(old) + 1, Len(s)), old, new)
         ELSE <<Head(s)>> \o Replace(Tail(s), old, new)

\* Python's str.strip() with no argument: the whitespace code points that occur
\* in the modelled strings are space, tab, LF, VT, FF and CR.
IsSpace(c) == c \in {32, 9, 10, 11, 12, 13}

RECURSIVE LStrip(_)
LStrip(s) == IF Len(s) > 0 /\ IsSpace(Head(s)) THEN LStrip(Tail(s)) ELSE s

RECURSIVE RStrip(_)
RStrip(s) == IF Len(s) > 0 /\ IsSpace(s[Len(s)]) THEN RStrip(SubSeq(s, 1, Len(s) - 1)) ELSE s

Strip(s) == RStrip(LStrip(s))

(***************************************************************************)
(* Python codecs, restricted to the bytes and code points of the modelled  *)
(* inputs.  A codec is named as codecs.lookup() names it; "none" is a      *)
(* label Python does not know (LookupError).                               *)
(***************************************************************************)
EncLabels ==
    {"", "utf-8", "utf8", "UTF-8", "utf-8-sig", "utf_8_sig", "utf-16", "UTF_16",
     "utf-16-le", "utf-16le", "utf-16-be", "utf-16be", "utf-16-le-bom",
     "utf-16-be-bom", "cp932", "shift_jis", "windows-1252", "auto", "utf-8 "}

\* str.strip() on the labels above.
StripLabel(l) == IF l = "utf-8 " THEN "utf-8" ELSE l

\* str.lower().replace("_", "-") on the labels above.
LowerDash(l) ==
    CASE l = "UTF-8" -> "utf-8"
      [] l = "utf_8_sig" -> "utf-8-sig"
      [] l = "UTF_16" -> "utf-16"
      [] l = "shift_jis" -> "shift-jis"
      [] OTHER -> l

\* codecs.lookup(label).name
PyCodec(l) ==
    CASE l \in {"utf-8", "utf8", "UTF-8"} -> "utf-8"
      [] l \in {"utf-8-sig", "utf_8_sig"} -> "utf-8-sig"
      [] l \in {"utf-16", "UTF_16"} -> "utf-16"
      [] l \in {"utf-16-le", "utf-16le"} -> "utf-16-le"
      [] l \in {"utf-16-be", "utf-16be"} -> "utf-16-be"
      [] l = "cp932" -> "cp932"
      [] l \in {"shift_jis", "shift-jis"} -> "shift_jis"
      [] l = "windows-1252" -> "cp1252"
      [] OTHER -> "none"

\* Double-byte pairs of cp932 / shift_jis over the modelled bytes: <<lead, trail, code point>>.
Cp932Pairs ==
    {<<129, 97, 8741>>, <<129, 129, 65309>>, <<129, 130, 8800>>, <<129, 160, 9633>>,
     <<129, 187, 8839>>, <<129, 191, 8745>>, <<130, 97, 65314>>, <<130, 129, 65345>>,
     <<130, 130, 65346>>, <<130, 160, 12354>>, <<130, 239, 12433>>, <<130, 187, 12381>>,
     <<130, 191, 12385>>}

ShiftJisPairs == (Cp932Pairs \ {<<129, 97, 8741>>}) \cup {<<129, 97, 8214>>}

\* One character of str.encode(codec, errors="replace").
EncodeChar(c, codec) ==
    CASE codec = "utf-8" ->
             (CASE c < 128 -> <<c>>
                [] c >= 128 /\ c < 2048 -> <<192 + (c \div 64), 128 + (c % 64)>>
                [] c >= 2048 /\ c < 55296 ->
                     <<224 + (c \div 4096), 128 + ((c \div 64) % 64), 128 + (c % 64)>>
                [] c >= 57344 /\ c < 65536 ->
                     <<224 + (c \div 4096), 128 + ((c \div 64) % 64), 128 + (c % 64)>>)
      [] codec = "utf-16-le" -> (CASE c < 55296 \/ (c >= 57344 /\ c < 65536) -> <<c % 256, c \div 256>>)
      [] codec = "utf-16-be" -> (CASE c < 55296 \/ (c >= 57344 /\ c < 65536) -> <<c \div 256, c % 256>>)
      [] codec \in {"cp932", "shift_jis"} ->
             (CASE c < 128 -> <<c>>
                [] c = 12354 -> <<130, 160>>
                [] c \in {233, 65279, ReplacementChar} -> <<QuestionMark>>)
      [] codec = "cp1252" ->
             (CASE c < 128 -> <<c>>
                [] c >= 160 /\ c < 256 -> <<c>>
                [] c \in {12354, 65279, ReplacementChar} -> <<QuestionMark>>)

RECURSIVE EncodeChars(_, _)
EncodeChars(s, codec) ==
    IF Len(s) = 0 THEN <<>> ELSE EncodeChar(Head(s), codec) \o EncodeChars(Tail(s), codec)

\* str.encode(codec, errors="replace"); "utf-16" writes the BOM in the native
\* (little-endian) byte order, "utf-8-sig" writes the UTF-8 signature.
PyEncode(s, codec) ==
    CASE codec = "utf-8-sig" -> BOM_UTF8 \o EncodeChars(s, "utf-8")
      [] codec = "utf-16" -> BOM_UTF16_LE \o EncodeChars(s, "utf-16-le")
      [] codec \in {"utf-8", "utf-16-le", "utf-16-be", "cp932", "shift_jis", "cp1252"} ->
             EncodeChars(s, codec)

IsCont(b, i) == i <= Len(b) /\ b[i] >= 128 /\ b[i] <= 191

\* One decoding step at position i: n bytes consumed, cp the code point, or
\* cp = -1 when the bytes at i are invalid for the codec.
DecodeUnit(b, i, codec) ==
    LET c == b[i] IN
    CASE codec = "utf-8" ->
             (CASE c < 128 -> [n |-> 1, cp |-> c]
                [] c >= 128 /\ c < 194 -> [n |-> 1, cp |-> -1]
                [] c >= 194 /\ c < 224 ->
                     IF IsCont(b, i + 1)
                     THEN [n |-> 2, cp |-> (c - 192) * 64 + (b[i + 1] - 128)]
                     ELSE [n |-> 1, cp |-> -1]
                [] c > 224 /\ c < 240 /\ c # 237 ->
                     IF ~IsCont(b, i + 1) THEN [n |-> 1, cp |-> -1]
                     ELSE IF ~IsCont(b, i + 2) THEN [n |-> 2, cp |-> -1]
                     ELSE [n |-> 3, cp |-> (c - 224) * 4096 + (b[i + 1] - 128) * 64 + (b[i + 2] - 128)]
                [] c >= 245 -> [n |-> 1, cp |-> -1])
      [] codec \in {"utf-16-le", "utf-16-be"} ->
             IF i + 1 > Len(b) THEN [n |-> 1, cp |-> -1]
             ELSE LET u == IF codec = "utf-16-le" THEN c + 256 * b[i + 1] ELSE 256 * c + b[i + 1]
                  IN  (CASE u < 55296 \/ u >= 57344 -> [n |-> 2, cp |-> u])
      [] codec = "cp1252" ->
             (CASE c < 128 -> [n |-> 1, cp |-> c]
                [] c = 130 -> [n |-> 1, cp |-> 8218]
                [] c \in {129, 141, 143, 144, 157} -> [n |-> 1, cp |-> -1]
                [] c >= 160 -> [n |-> 1, cp |-> c])
      [] codec \in {"cp932", "shift_jis"} ->
             LET pairs == IF codec = "cp932" THEN Cp932Pairs ELSE ShiftJisPairs
                 hit == {p \in pairs : i + 1 <= Len(b) /\ p[1] = c /\ p[2] = b[i + 1]}
             IN  (CASE c < 128 -> [n |-> 1, cp |-> c]
                    [] c >= 161 /\ c <= 223 -> [n |-> 1, cp |-> 65377 + (c - 161)]
                    [] c = 160 -> IF codec = "cp932" THEN [n |-> 1, cp |-> 63728] ELSE [n |-> 1, cp |-> -1]
                    [] c >= 253 -> IF codec = "cp932" THEN [n |-> 1, cp |-> 63729 + (c - 253)]
                                   ELSE [n |-> 1, cp |-> -1]
                    [] c \in {129, 130, 239} ->
                         IF hit # {} THEN [n |-> 2, cp |-> (CHOOSE p \in hit : TRUE)[3]]
                         ELSE [n |-> 1, cp |-> -1])

\* bytes[i..].decode(codec, errors): the text, or <<-1>> when errors = "strict"
\* and some unit is invalid (UnicodeDecodeError).
Raised == <<-1>>

RECURSIVE DecodeFrom(_, _, _, _)
DecodeFrom(b, i, codec, errors) ==
    IF i > Len(b) THEN <<>>
    ELSE LET u == DecodeUnit(b, i, codec)
             rest == DecodeFrom(b, i + u.n, codec, errors)
         IN  IF rest = Raised THEN Raised
             ELSE IF u.cp = -1
                  THEN IF errors = "strict" THEN Raised ELSE <<ReplacementChar>> \o rest
                  ELSE <<u.cp>> \o rest

\* bytes.decode(codec, errors) with the signature handling of "utf-8-sig" and
\* "utf-16"; an unknown codec raises LookupError.
PyDecode(b, codec, errors) ==
    CASE codec = "none" -> Raised
      [] codec = "utf-8-sig" ->
             DecodeFrom(b, IF StartsWith(b, BOM_UTF8) THEN 4 ELSE 1, "utf-8", errors)
      [] codec = "utf-16" ->
             IF StartsWith(b, BOM_UTF16_LE) THEN DecodeFrom(b, 3, "utf-16-le", errors)
             ELSE IF StartsWith(b, BOM_UTF16_BE) THEN DecodeFrom(b, 3, "utf-16-be", errors)
             ELSE DecodeFrom(b, 1, "utf-16-le", errors)
      [] OTHER -> DecodeFrom(b, 1, codec, errors)

(***************************************************************************)
(* services/encoding_service.py                                            *)
(***************************************************************************)
NL_LF == <<LF>>

NL_CRLF == <<CR, LF>>

\* A newline_style argument: None or "" (no normalisation), "\n", "\r\n".
NewlineArgs == {<<>>, NL_LF, NL_CRLF}

detect_newline_style_bytes(data) == IF Contains(data, NL_CRLF) THEN NL_CRLF ELSE NL_LF

\* normalize_newlines without the .replace("\r", "\n") step.
normalize_newlines_keepCR(text, newline_style) ==
    IF Len(text) = 0 THEN <<>>
    ELSE LET s == Replace(text, NL_CRLF, NL_LF)
         IN  IF newline_style = NL_CRLF THEN Replace(s, NL_LF, NL_CRLF) ELSE s

normalize_newlines(text, newline_style) ==
    IF Len(text) = 0 THEN <<>>
    ELSE LET s == Replace(Replace(text, NL_CRLF, NL_LF), <<CR>>, NL_LF)
         IN  IF newline_style = NL_CRLF THEN Replace(s, NL_LF, NL_CRLF) ELSE s

\* encode_text(text, encoding, newline_style=..., errors="replace", add_bom=...):
\* the bytes, or Raised when Python does not know the codec.
encode_text(text, encoding, newline_style, add_bom) ==
    LET enc0 == IF StripLabel(encoding) = "" THEN "utf-8" ELSE StripLabel(encoding)
        s == IF newline_style # <<>> THEN normalize_newlines(text, newline_style) ELSE text
        low0 == LowerDash(enc0)
        a == CASE low0 \in {"utf-16-le-bom", "utf16-le-bom", "utf-16le-bom", "utf16le-bom"} ->
                      [enc |-> "utf-16-le", bom |-> TRUE, low |-> "utf-16-le"]
               [] low0 \in {"utf-16-be-bom", "utf16-be-bom", "utf-16be-bom", "utf16be-bom"} ->
                      [enc |-> "utf-16-be", bom |-> TRUE, low |-> "utf-16-be"]
               [] low0 \in {"utf-8-sig", "utf8-sig"} ->
                      [enc |-> "utf-8", bom |-> TRUE, low |-> "utf-8"]
               [] OTHER -> [enc |-> enc0, bom |-> add_bom, low |-> low0]
    IN  IF PyCodec(a.enc) = "none" THEN Raised
        ELSE LET data == PyEncode(s, PyCodec(a.enc))
             IN  IF ~a.bom THEN data
                 ELSE IF a.low \in {"utf-8", "utf8"} THEN BOM_UTF8 \o data
                 ELSE IF a.low \in {"utf-16", "utf16"} THEN PyEncode(s, "utf-16")
                 ELSE IF a.low \in {"utf-16-le", "utf16-le", "utf-16le", "utf16le"} THEN BOM_UTF16_LE \o data
                 ELSE IF a.low \in {"utf-16-be", "utf16-be", "utf-16be", "utf16be"} THEN BOM_UTF16_BE \o data
                 ELSE data

\* decode_bytes that looks for a BOM only when the requested encoding carries one.
decode_bytes_bomByLabel(data, encoding, errors) ==
    LET enc0 == IF StripLabel(encoding) = "" THEN "utf-8" ELSE StripLabel(encoding)
        low == LowerDash(enc0)
        enc == CASE low \in {"utf-8-sig", "utf8-sig"} -> "utf-8-sig"
                 [] low \in {"utf-16le", "utf16le"} -> "utf-16-le"
                 [] low \in {"utf-16be", "utf16be"} -> "utf-16-be"
                 [] OTHER -> enc0
        had_bom == \/ PyCodec(enc) = "utf-8-sig" /\ StartsWith(data, BOM_UTF8)
                   \/ PyCodec(enc) = "utf-16"
                      /\ (StartsWith(data, BOM_UTF16_LE) \/ StartsWith(data, BOM_UTF16_BE))
        txt == PyDecode(data, PyCodec(enc), errors)
    IN  [raised |-> txt = Raised, text |-> IF txt = Raised THEN <<>> ELSE txt,
         newline_style |-> detect_newline_style_bytes(data), had_bom |-> had_bom]

\* decode_bytes(data, encoding, errors=...): a DecodedText, or raised = TRUE when
\* bytes.decode raises (UnicodeDecodeError under "strict", LookupError).
decode_bytes(data, encoding, errors) ==
    LET newline_style == detect_newline_style_bytes(data)
        enc0 == IF StripLabel(encoding) = "" THEN "utf-8" ELSE StripLabel(encoding)
        low == LowerDash(enc0)
        enc == CASE low \in {"utf-8-sig", "utf8-sig"} -> "utf-8-sig"
                 [] low \in {"utf-16le", "utf16le"} -> "utf-16-le"
                 [] low \in {"utf-16be", "utf16be"} -> "utf-16-be"
                 [] OTHER -> enc0
        had_bom == StartsWith(data, BOM_UTF8)
                   \/ StartsWith(data, BOM_UTF16_LE) \/ StartsWith(data, BOM_UTF16_BE)
        txt == PyDecode(data, PyCodec(enc), errors)
    IN  IF txt = Raised
        THEN [raised |-> TRUE, text |-> <<>>, newline_style |-> newline_style, had_bom |-> had_bom]
        ELSE [raised |-> FALSE, text |-> txt, newline_style |-> newline_style, had_bom |-> had_bom]

(***************************************************************************)
(* Inputs of the codec calls.                                              *)
(***************************************************************************)
TextChars == {97, 98, CR, LF, 233, 65279}

Texts == SeqUpTo(TextChars, MaxTextLen)

BodyBytes == {97, 13, 10, 129, 130, 160}

BomPrefixes == {<<>>, BOM_UTF8, BOM_UTF16_LE, BOM_UTF16_BE}

FileBytes == {p \o b : p \in BomPrefixes, b \in SeqUpTo(BodyBytes, MaxBodyLen)}

(***************************************************************************)
(* Handler objects (duck-typed parser plugins).  A handler is named by its  *)
(* instance; plugin_id is the raw attribute, callables the contract methods *)
(* it has, extensions its raw attribute, detect the score detect(ctx, text)  *)
(* returns, in tenths, raises whether detect raises instead, and frozen     *)
(* whether setting an attribute on it raises (manager.ParserPlugin, a       *)
(* frozen dataclass without the contract methods, is the handler "listed"). *)
(***************************************************************************)
\* The extensions attribute of a handler that has none (None).
NoExtensions == {"<None>"}

Handlers ==
    [ks9 |-> [plugin_id |-> "kirikiri.ks", callables |-> {"detect", "parse", "rebuild"},
              extensions |-> {".KS"}, detect |-> 9, raises |-> FALSE, frozen |-> FALSE],
     ks9b |-> [plugin_id |-> " Kirikiri.KS ", callables |-> {"detect", "parse", "rebuild"},
               extensions |-> {".ks"}, detect |-> 9, raises |-> FALSE, frozen |-> FALSE],
     any5 |-> [plugin_id |-> "plain", callables |-> {"detect", "parse", "rebuild"},
               extensions |-> NoExtensions, detect |-> 5, raises |-> FALSE, frozen |-> FALSE],
     any9 |-> [plugin_id |-> "generic", callables |-> {"detect", "parse", "rebuild"},
               extensions |-> {""}, detect |-> 9, raises |-> FALSE, frozen |-> FALSE],
     txt9 |-> [plugin_id |-> "txt", callables |-> {"detect", "parse", "rebuild"},
               extensions |-> {".txt"}, detect |-> 9, raises |-> FALSE, frozen |-> FALSE],
     boom |-> [plugin_id |-> "boom", callables |-> {"detect", "parse", "rebuild"},
               extensions |-> {}, detect |-> 0, raises |-> TRUE, frozen |-> FALSE],
     zero |-> [plugin_id |-> "zero", callables |-> {"detect", "parse", "rebuild"},
               extensions |-> {}, detect |-> 0, raises |-> FALSE, frozen |-> FALSE],
     noid |-> [plugin_id |-> "  ", callables |-> {"detect", "parse", "rebuild"},
               extensions |-> {}, detect |-> 9, raises |-> FALSE, frozen |-> FALSE],
     norebuild |-> [plugin_id |-> "plain", callables |-> {"detect", "parse"},
                    extensions |-> {}, detect |-> 9, raises |-> FALSE, frozen |-> FALSE],
     listed |-> [plugin_id |-> "kirikiri.ks", callables |-> {},
                 extensions |-> {".ks"}, detect |-> 0, raises |-> TRUE, frozen |-> TRUE]]

HandlerNames == DOMAIN Handlers

\* str.lower() on the extension strings of the handlers and files.
LowerExt(e) == IF e = ".KS" THEN ".ks" ELSE IF e = ".TXT" THEN ".txt" ELSE e

(***************************************************************************)
(* parsers/registry.py                                                     *)
(***************************************************************************)
\* ParserRegistry._norm_id: (pid or "").strip().lower()
norm_id(pid) ==
    CASE pid = " Kirikiri.KS " -> "kirikiri.ks"
      [] pid = "  " -> ""
      [] OTHER -> pid

Sources == {"builtin", "external"}

\* register that lets the last registration win whatever its source.
register_lastWins(reg, exts, plugin, source) ==
    LET h == Handlers[plugin]
        pid == norm_id(h.plugin_id)
    IN  IF pid = "" \/ {"detect", "parse", "rebuild"} \ h.callables # {}
        THEN [raised |-> TRUE, by_id |-> reg, extensions |-> exts]
        ELSE [raised |-> FALSE,
              by_id |-> (pid :> [plugin |-> plugin, source |-> source]) @@ reg,
              extensions |-> exts]

\* register that stores the handler before it looks for its callables.
register_storeThenCheck(reg, exts, plugin, source) ==
    LET h == Handlers[plugin]
        pid == norm_id(h.plugin_id)
    IN  IF pid = "" THEN [raised |-> TRUE, by_id |-> reg, extensions |-> exts]
        ELSE [raised |-> {"detect", "parse", "rebuild"} \ h.callables # {},
              by_id |-> (pid :> [plugin |-> plugin, source |-> source]) @@ reg,
              extensions |-> exts]

\* ParserRegistry.register(plugin, source) on the registry reg (_by_id) and the
\* handlers' extensions attributes exts: what both are afterwards, and whether
\* the call raised ValueError.
register(reg, exts, plugin, source) ==
    LET h == Handlers[plugin]
        pid == norm_id(h.plugin_id)
    IN  IF pid = "" THEN [raised |-> TRUE, by_id |-> reg, extensions |-> exts]
        ELSE IF {"detect", "parse", "rebuild"} \ h.callables # {}
        THEN [raised |-> TRUE, by_id |-> reg, extensions |-> exts]
        ELSE LET exts2 == [exts EXCEPT ![plugin] =
                              IF exts[plugin] = NoExtensions THEN {}
                              ELSE {LowerExt(e) : e \in {x \in exts[plugin] : x # ""}}]
             IN  IF pid \in DOMAIN reg /\ reg[pid].source = "external" /\ source # "external"
                 THEN [raised |-> FALSE, by_id |-> reg, extensions |-> exts2]
                 ELSE [raised |-> FALSE,
                       by_id |-> (pid :> [plugin |-> plugin, source |-> source]) @@ reg,
                       extensions |-> exts2]

\* ParserRegistry.get(plugin_id)
registry_get(reg, plugin_id) ==
    IF norm_id(plugin_id) \in DOMAIN reg THEN reg[norm_id(plugin_id)]
    ELSE [plugin |-> "None", source |-> "None"]

(***************************************************************************)
(* parsers/autodetect.py                                                   *)
(***************************************************************************)
Files == {"scene.ks", "NOTES.TXT", "README"}

\* os.path.splitext(file_path)[1]
SplitExt(f) == CASE f = "scene.ks" -> ".ks" [] f = "NOTES.TXT" -> ".TXT" [] f = "README" -> ""

\* project.get("parser_id"): absent, an id no handler has (a profile of the
\* id kirikiri.ks), a handler's id.
ParserIds == {"", "kirikiri.ks.yandere", "txt"}

\* mgr.get(parser_id): the loaded handler of that normalized id, or "None".
mgr_get(plugins, parser_id) ==
    LET hit == {i \in 1..Len(plugins) : norm_id(Handlers[plugins[i]].plugin_id) = norm_id(parser_id)}
    IN  IF hit = {} THEN "None" ELSE plugins[CHOOSE i \in hit : \A j \in hit : i <= j]

\* _plugin_exts_lower(plugin): the cached set when there is one, else the
\* lower-cased non-empty extensions; the cache afterwards.  Caching on a
\* frozen handler raises.
NotCached == {"<not cached>"}

plugin_exts_lower(exts, cache, plugin) ==
    IF cache[plugin] # NotCached THEN [raised |-> FALSE, exts |-> cache[plugin], cache |-> cache]
    ELSE IF Handlers[plugin].frozen THEN [raised |-> TRUE, exts |-> {}, cache |-> cache]
    ELSE LET raw == IF exts[plugin] = NoExtensions THEN {} ELSE exts[plugin]
             out == {LowerExt(e) : e \in {x \in raw : x # ""}}
         IN  [raised |-> FALSE, exts |-> out, cache |-> [cache EXCEPT ![plugin] = out]]

\* The scan of select_parser from position i on where an equal score replaces the best.
RECURSIVE scan_lastMax(_, _, _, _, _, _, _, _)
scan_lastMax(plugins, exts, cache, ext, i, best, best_score, called) ==
    IF i > Len(plugins)
    THEN [best |-> best, best_score |-> best_score, cache |-> cache, called |-> called]
    ELSE LET p == plugins[i]
             e == plugin_exts_lower(exts, cache, p)
         IN  IF e.raised \/ (e.exts # {} /\ ext \notin e.exts)
             THEN scan_lastMax(plugins, exts, e.cache, ext, i + 1, best, best_score, called)
             ELSE IF Handlers[p].raises
             THEN scan_lastMax(plugins, exts, e.cache, ext, i + 1, best, best_score, Append(called, p))
             ELSE IF Handlers[p].detect >= best_score /\ Handlers[p].detect > 0
             THEN scan_lastMax(plugins, exts, e.cache, ext, i + 1, p, Handlers[p].detect, Append(called, p))
             ELSE scan_lastMax(plugins, exts, e.cache, ext, i + 1, best, best_score, Append(called, p))

\* The scan of select_parser from position i on without the extension filter.
RECURSIVE scan_noExtensionFilter(_, _, _, _, _, _, _, _)
scan_noExtensionFilter(plugins, exts, cache, ext, i, best, best_score, called) ==
    IF i > Len(plugins)
    THEN [best |-> best, best_score |-> best_score, cache |-> cache, called |-> called]
    ELSE LET p == plugins[i]
             e == plugin_exts_lower(exts, cache, p)
         IN  IF e.raised
             THEN scan_noExtensionFilter(plugins, exts, e.cache, ext, i + 1, best, best_score, called)
             ELSE IF Handlers[p].raises
             THEN scan_noExtensionFilter(plugins, exts, e.cache, ext, i + 1, best, best_score, Append(called, p))
             ELSE IF Handlers[p].detect > best_score
             THEN scan_noExtensionFilter(plugins, exts, e.cache, ext, i + 1, p, Handlers[p].detect, Append(called, p))
             ELSE scan_noExtensionFilter(plugins, exts, e.cache, ext, i + 1, best, best_score, Append(called, p))

\* The scan of select_parser from position i on that stops at the first
\* detect that raises.
RECURSIVE scan_stopAtRaise(_, _, _, _, _, _, _, _)
scan_stopAtRaise(plugins, exts, cache, ext, i, best, best_score, called) ==
    IF i > Len(plugins)
    THEN [best |-> best, best_score |-> best_score, cache |-> cache, called |-> called]
    ELSE LET p == plugins[i]
             e == plugin_exts_lower(exts, cache, p)
         IN  IF e.raised \/ (e.exts # {} /\ ext \notin e.exts)
             THEN scan_stopAtRaise(plugins, exts, e.cache, ext, i + 1, best, best_score, called)
             ELSE IF Handlers[p].raises
             THEN [best |-> best, best_score |-> best_score, cache |-> e.cache,
                   called |-> Append(called, p)]
             ELSE IF Handlers[p].detect > best_score
             THEN scan_stopAtRaise(plugins, exts, e.cache, ext, i + 1, p, Handlers[p].detect, Append(called, p))
             ELSE scan_stopAtRaise(plugins, exts, e.cache, ext, i + 1, best, best_score, Append(called, p))

\* The for loop of select_parser from position i on: the best handler so far
\* ("None" when there is none), its score, the extension caches, and the
\* handlers whose detect has been called, in order.
RECURSIVE scan(_, _, _, _, _, _, _, _)
scan(plugins, exts, cache, ext, i, best, best_score, called) ==
    IF i > Len(plugins)
    THEN [best |-> best, best_score |-> best_score, cache |-> cache, called |-> called]
    ELSE LET p == plugins[i]
             e == plugin_exts_lower(exts, cache, p)
         IN  IF e.raised \/ (e.exts # {} /\ ext \notin e.exts)
             THEN scan(plugins, exts, e.cache, ext, i + 1, best, best_score, called)
             ELSE IF Handlers[p].raises
             THEN scan(plugins, exts, e.cache, ext, i + 1, best, best_score, Append(called, p))
             ELSE IF Handlers[p].detect > best_score
             THEN scan(plugins, exts, e.cache, ext, i + 1, p, Handlers[p].detect, Append(called, p))
             ELSE scan(plugins, exts, e.cache, ext, i + 1, best, best_score, Append(called, p))

\* The plugin_id strings of the handlers, as sorted() orders them.
SortedIds == <<"boom", "generic", "kirikiri.ks", "plain", "txt", "zero">>

\* sorted(pid for pid in (getattr(p, "plugin_id", "") for p in plugins) if pid),
\* from position k of SortedIds on.
RECURSIVE available(_, _)
available(plugins, k) ==
    IF k > Len(SortedIds) THEN <<>>
    ELSE [i \in 1..Cardinality({j \in 1..Len(plugins) : Handlers[plugins[j]].plugin_id = SortedIds[k]})
             |-> SortedIds[k]]
         \o available(plugins, k + 1)

NoMessage == [file_path |-> "", ext |-> "", available |-> <<>>]

\* The message of the ParserError of select_parser, by the values it prints:
\* Arquivo, Extensão and Parsers disponíveis.
error_message_noIds(plugins, file_path, ext) ==
    [file_path |-> file_path,
     ext |-> IF ext = "" THEN "(sem extensão)" ELSE ext,
     available |-> <<>>]

error_message(plugins, file_path, ext) ==
    [file_path |-> file_path,
     ext |-> IF ext = "" THEN "(sem extensão)" ELSE ext,
     available |-> available(plugins, 1)]

\* What select_parser makes of the outcome r of its scan.
scan_outcome(plugins, file_path, ext, r) ==
    IF r.best # "None" /\ r.best_score > 0
    THEN [how |-> "detected", handler |-> r.best, cache |-> r.cache,
          called |-> r.called, message |-> NoMessage]
    ELSE [how |-> "ParserError", handler |-> "None", cache |-> r.cache,
          called |-> r.called, message |-> error_message(plugins, file_path, ext)]

\* select_parser(project, file_path, text) with plugins = mgr.all_plugins():
\* how it returned ("explicit", "detected", or "ParserError"), the handler
\* returned, the extension caches afterwards, the handlers whose detect was
\* called, and the message of the error.
select_parser(plugins, exts, cache, parser_id, file_path) ==
    IF parser_id # "" /\ mgr_get(plugins, parser_id) # "None"
    THEN [how |-> "explicit", handler |-> mgr_get(plugins, parser_id), cache |-> cache,
          called |-> <<>>, message |-> NoMessage]
    ELSE scan_outcome(plugins, file_path, LowerExt(SplitExt(file_path)),
                      scan(plugins, exts, cache, LowerExt(SplitExt(file_path)), 1, "None", 0, <<>>))

\* The parameters of select_parser.
SelectParserParams == {"project", "file_path", "text"}

\* Python's binding of a call of select_parser with npos positional
\* arguments and the keyword arguments kw: TypeError for a keyword that is
\* no parameter or a parameter left without a value.
call_raises_TypeError(npos, kw) ==
    \/ ~(kw \subseteq SelectParserParams)
    \/ npos + Cardinality(kw) # Cardinality(SelectParserParams)

\* parser_id.rsplit(".", 1)[0] and "." in parser_id, on the ids used.
rsplit_base(parser_id) ==
    IF parser_id = "kirikiri.ks.yandere" THEN "kirikiri.ks" ELSE parser_id

has_dot(parser_id) == parser_id = "kirikiri.ks.yandere"

\* The call select_parser(ctx, text, parser_id=...) that
\* _select_parser_with_fallback makes: two positional arguments and the
\* keyword parser_id.
select_parser_kw(plugins, exts, cache, parser_id, file_path) ==
    IF call_raises_TypeError(2, {"parser_id"})
    THEN [how |-> "TypeError", handler |-> "None", cache |-> cache,
          called |-> <<>>, message |-> NoMessage]
    ELSE select_parser(plugins, exts, cache, parser_id, file_path)

\* The last step of _select_parser_with_fallback: select_parser(ctx, text, parser_id=None).
fallback_autodetect(plugins, exts, cache, file_path) ==
    select_parser_kw(plugins, exts, cache, "", file_path)

\* The second step: the call with the base id when the id has a dot, its
\* exception swallowed.
fallback_base(plugins, exts, cache, parser_id, file_path) ==
    IF /\ has_dot(parser_id)
       /\ select_parser_kw(plugins, exts, cache, rsplit_base(parser_id), file_path).how
              \notin {"TypeError", "ParserError"}
    THEN select_parser_kw(plugins, exts, cache, rsplit_base(parser_id), file_path)
    ELSE fallback_autodetect(plugins, exts, cache, file_path)

\* ParserUtilsMixin._select_parser_with_fallback(ctx, text, parser_id).
_select_parser_with_fallback(plugins, exts, cache, parser_id, file_path) ==
    IF parser_id = ""
    THEN fallback_autodetect(plugins, exts, cache, file_path)
    ELSE IF select_parser_kw(plugins, exts, cache, parser_id, file_path).how
                \notin {"TypeError", "ParserError"}
    THEN select_parser_kw(plugins, exts, cache, parser_id, file_path)
    ELSE fallback_base(plugins, exts, cache, parser_id, file_path)

(***************************************************************************)
(* models/project_state_store.py: the per-file state file.  A state file   *)
(* is absent, unreadable as JSON, or the JSON payload save_file_state      *)
(* wrote.  Entries are the dicts of the core, reduced to entry_id and      *)
(* translation.                                                            *)
(***************************************************************************)
NoStateFile ==
    [kind |-> "absent", entries |-> <<>>, encoding |-> "", newline_style |-> <<>>, had_bom |-> FALSE]

CorruptStateFile == [NoStateFile EXCEPT !.kind = "corrupt"]

\* save_file_state(project, file_path, entries, encoding=, newline_style=, had_bom=):
\* the payload _atomic_write_json puts in place of the state file.
save_file_state(entries, encoding, newline_style, had_bom) ==
    [kind |-> "json", entries |-> entries, encoding |-> StripLabel(encoding),
     newline_style |-> Strip(newline_style), had_bom |-> had_bom]

\* load_file_state(project, file_path): None (found = FALSE) or the FileState.
load_file_state(sf) ==
    IF sf.kind # "json"
    THEN [found |-> FALSE, entries |-> <<>>, encoding |-> "", newline_style |-> <<>>, had_bom |-> FALSE]
    ELSE [found |-> TRUE, entries |-> sf.entries, encoding |-> StripLabel(sf.encoding),
          newline_style |-> Strip(sf.newline_style), had_bom |-> sf.had_bom]

(***************************************************************************)
(* services/file_ops_service.py: open_file, and the FileTab it fills.      *)
(***************************************************************************)
\* candidates of open_file: the non-empty labels of l, each once, in order.
RECURSIVE Dedupe(_, _)
Dedupe(l, acc) ==
    IF l = <<>> THEN acc
    ELSE IF StripLabel(Head(l)) # "" /\ \A i \in 1..Len(acc) : acc[i] # StripLabel(Head(l))
         THEN Dedupe(Tail(l), Append(acc, StripLabel(Head(l))))
         ELSE Dedupe(Tail(l), acc)

\* _try_decode(enc): raw.decode(enc, errors="strict") does not raise.
try_decode(raw, enc) == PyDecode(raw, PyCodec(enc), "strict") # Raised

\* hint_encoding of open_file.
hint_encoding(project_enc) ==
    LET h0 == IF project_enc = "" THEN "utf-8" ELSE project_enc
        h == IF StripLabel(h0) = "" THEN "utf-8" ELSE StripLabel(h0)
    IN  IF LowerDash(h) = "auto" THEN "utf-8" ELSE h

\* load_project_state_if_exists: the saved translations merged by entry_id
\* into the parsed entries (positionally when no saved entry has an id).
merge_state(cur, st) ==
    IF ~st.found THEN cur
    ELSE [i \in DOMAIN cur |->
            LET hit == {j \in DOMAIN st.entries : st.entries[j].entry_id = cur[i].entry_id}
            IN  IF hit = {} THEN cur[i]
                ELSE [cur[i] EXCEPT !.translation =
                        st.entries[CHOOSE j \in hit : \A k \in hit : k <= j].translation]]

ClosedTab ==
    [open |-> FALSE, input_encoding |-> "", ctx_encoding |-> "", text |-> <<>>,
     newline_style |-> <<>>, had_bom |-> FALSE, entries |-> <<>>, dirty |-> FALSE]

\* bom_first of open_file: the encoding a BOM at the start of raw implies.
bom_first(raw) ==
    IF StartsWith(raw, BOM_UTF8) THEN <<"utf-8-sig">>
    ELSE IF StartsWith(raw, BOM_UTF16_LE) \/ StartsWith(raw, BOM_UTF16_BE) THEN <<"utf-16">>
    ELSE <<>>

\* The candidates with the project hint ranked before the recorded encoding and the BOM.
candidates_hintFirst(raw, hint, state_encoding) ==
    Dedupe(<<hint, state_encoding>> \o bom_first(raw)
           \o <<"utf-8", "utf-8-sig", "cp932", "shift_jis", "windows-1252">>, <<>>)

\* candidates of open_file.
candidates(raw, hint, state_encoding) ==
    Dedupe(<<state_encoding>> \o bom_first(raw)
           \o <<hint, "utf-8", "utf-8-sig", "cp932", "shift_jis", "windows-1252">>, <<>>)

\* chosen of open_file: the first candidate from position i on that decodes
\* raw strictly, else the hint.
RECURSIVE chosen_from(_, _, _, _)
chosen_from(raw, cands, i, hint) ==
    IF i > Len(cands) THEN hint
    ELSE IF try_decode(raw, cands[i]) THEN cands[i]
    ELSE chosen_from(raw, cands, i + 1, hint)

\* open_file from the decoded text on: an error dialog, or the tab.
open_decoded(chosen, decoded, st, parsed) ==
    IF decoded.raised THEN [outcome |-> "decode_error", chosen |-> chosen, tab |-> ClosedTab]
    ELSE IF parsed.raised THEN [outcome |-> "parse_error", chosen |-> chosen, tab |-> ClosedTab]
    ELSE [outcome |-> "opened", chosen |-> chosen,
          tab |-> [open |-> TRUE, input_encoding |-> chosen, ctx_encoding |-> chosen,
                   text |-> decoded.text, newline_style |-> decoded.newline_style,
                   had_bom |-> decoded.had_bom, entries |-> merge_state(parsed.entries, st),
                   dirty |-> FALSE]]

\* open_file from the chosen encoding on.
open_chosen(raw, chosen, st, parsed) ==
    open_decoded(chosen, decode_bytes(raw, chosen, "replace"), st, parsed)

\* open_file from the loaded state and the hint on.
open_hinted(raw, hint, st, parsed) ==
    open_chosen(raw, chosen_from(raw, candidates(raw, hint, st.encoding), 1, hint), st, parsed)

\* open_file(main_window, index) on a file that is not open yet: raw the bytes
\* of the file, project_enc project["encoding"], sf the state file, parsed
\* what select_parser(...).parse(ctx, text) did.  The outcome is "opened",
\* or an error dialog ("decode_error", "parse_error") without a tab.
open_file(raw, project_enc, sf, parsed) ==
    open_hinted(raw, hint_encoding(project_enc), load_file_state(sf), parsed)

(***************************************************************************)
(* parsers/repository.py: directories of the installer.  A directory is    *)
(* missing or holds a set of plugin files.                                 *)
(***************************************************************************)
PluginFiles == {"ks/plugin.py", "txt/plugin.py"}

NoDir == [exists |-> FALSE, files |-> {}]

Dir(fs) == [exists |-> TRUE, files |-> fs]

\* The plugin folders a bundle can hold, and the file each one installs.
Folders == {"ks", "txt"}

plugin_py(folder) == folder \o "/plugin.py"

\* Contents of a plugin.py, as bytes; NoFile: the folder has no plugin.py.
NoFile == <<-1>>

Contents == {<<1>>, <<2>>}

\* _sha256_file: hashlib.sha256(...).hexdigest(), lower-case hexadecimal.
_sha256_file(content) ==
    CASE content = <<1>> -> "4bf5122f344554c53bde2ebb8cd2b7e3d1600ad631c385a5d7cce23c7785459a"
      [] content = <<2>> -> "dbc1b4c900ffe48d575b5da5c638040125f65db0fe3e24494b76ea986457d986"

\* The sha256 values a manifest item can carry: none, the digest of <<1>>,
\* and the same digest in upper case.
ShaValues ==
    {"", _sha256_file(<<1>>),
     "4BF5122F344554C53BDE2EBB8CD2B7E3D1600AD631C385A5D7CCE23C7785459A"}

\* (it.get("sha256") or "").strip().lower()
sha_strip_lower(sha) ==
    IF sha = "4BF5122F344554C53BDE2EBB8CD2B7E3D1600AD631C385A5D7CCE23C7785459A"
    THEN _sha256_file(<<1>>)
    ELSE sha

\* Items of a manifest: objects with folder, id and sha256, and one entry
\* of the items array that is not an object.
ManifestItems ==
    [is_dict : {TRUE}, folder : {"ks"}, id : {"kirikiri.ks", ""}, sha256 : ShaValues]
    \cup [is_dict : {TRUE}, folder : {"txt"}, id : {"txt"}, sha256 : {"", _sha256_file(<<1>>)}]
    \cup [is_dict : {TRUE}, folder : {""}, id : {"kirikiri.ks"}, sha256 : {_sha256_file(<<1>>)}]
    \cup [is_dict : {FALSE}, folder : {""}, id : {""}, sha256 : {""}]

\* What an archive unpacks to: manifest.json ("none": no such file,
\* "invalid": not an object with an items list) and the plugin.py of each
\* folder under plugins/.
Bundles ==
    [manifest : {"none", "invalid"}, items : {<<>>},
     plugins : [Folders -> Contents \cup {NoFile}]]
    \cup [manifest : {"items"}, items : SeqUpTo(ManifestItems, MaxItems),
          plugins : {p \in [Folders -> Contents \cup {NoFile}] : p["txt"] # <<2>>}]

NoBundle == [manifest |-> "none", items |-> <<>>, plugins |-> [f \in Folders |-> NoFile]]

\* The exception leaving the installer, by the fields its message prints.
InstallError(kind, url, name, expected, obtained) ==
    [kind |-> kind, url |-> url, name |-> name, expected |-> expected, obtained |-> obtained]

NoError == InstallError("", "", "", "", "")

Built(files) == [raised |-> FALSE, error |-> NoError, built |-> files]

BuildRaises(error) == [raised |-> TRUE, error |-> error, built |-> {}]

\* _find_plugins_root: a plugins directory with at least one folder that
\* holds a plugin.py.
_find_plugins_root(plugins) == \E f \in Folders : plugins[f] # NoFile

\* The loop of _build_repo_from_manifest from item i on; built is what
\* built_repo holds so far.
RECURSIVE build_items(_, _, _, _)
build_items_noHashCheck(items, plugins, i, built) ==
    IF i > Len(items)
    THEN IF built = {}
         THEN BuildRaises(InstallError("nothing_installed", "", "", "", ""))
         ELSE Built(built)
    ELSE IF ~items[i].is_dict \/ items[i].folder = ""
    THEN build_items(items, plugins, i + 1, built)
    ELSE IF plugins[items[i].folder] = NoFile
    THEN BuildRaises(InstallError("plugin_py_missing", "", items[i].folder, "", ""))
    ELSE build_items(items, plugins, i + 1, built \cup {plugin_py(items[i].folder)})

build_items(items, plugins, i, built) ==
    IF i > Len(items)
    THEN IF built = {}
         THEN BuildRaises(InstallError("nothing_installed", "", "", "", ""))
         ELSE Built(built)
    ELSE IF ~items[i].is_dict \/ items[i].folder = ""
    THEN build_items(items, plugins, i + 1, built)
    ELSE IF plugins[items[i].folder] = NoFile
    THEN BuildRaises(InstallError("plugin_py_missing", "", items[i].folder, "", ""))
    ELSE IF /\ sha_strip_lower(items[i].sha256) # ""
            /\ _sha256_file(plugins[items[i].folder]) # sha_strip_lower(items[i].sha256)
    THEN BuildRaises(InstallError("sha256",
                                  "",
                                  IF items[i].id # "" THEN items[i].id ELSE items[i].folder,
                                  sha_strip_lower(items[i].sha256),
                                  _sha256_file(plugins[items[i].folder])))
    ELSE build_items(items, plugins, i + 1, built \cup {plugin_py(items[i].folder)})

_build_repo_from_manifest(bundle) ==
    IF bundle.manifest = "invalid"
    THEN BuildRaises(InstallError("manifest_invalid", "", "", "", ""))
    ELSE IF ~_find_plugins_root(bundle.plugins)
    THEN BuildRaises(InstallError("plugins_not_found", "", "", "", ""))
    ELSE build_items(bundle.items, bundle.plugins, 1, {})

_build_repo_by_discovery(bundle) ==
    IF ~_find_plugins_root(bundle.plugins)
    THEN BuildRaises(InstallError("plugins_not_found", "", "", "", ""))
    ELSE Built({plugin_py(f) : f \in {g \in Folders : bundle.plugins[g] # NoFile}})

\* The bodies a server can answer with: an archive, an HTML page, bytes
\* that start like an archive without being one, and short answers.
ZipBody == <<80, 75, 3, 4>>

HtmlBody == <<60, 104, 116, 109>>

Bodies == {ZipBody, HtmlBody, <<80, 75, 0, 0>>, <<80, 75>>, <<60>>, <<>>}

\* HTTP statuses of the answer; urlopen raises HTTPError outside 2xx.
Statuses == {200, 203, 404}

\* RepoSpec.zip_url of the repository installed from.
zip_url == "https://github.com/Satonix/SekaiParsers/archive/refs/heads/main.zip"

\* What the server answers: an archive of a bundle, or any other body under
\* any status.
Responses ==
    [status : {200}, body : {ZipBody}, bundle : Bundles]
    \cup [status : Statuses, body : Bodies, bundle : {NoBundle}]

\* _download_bytes: the body read, or the HTTPError of urlopen.
_download_bytes(response) ==
    IF response.status >= 200 /\ response.status < 300
    THEN [raised |-> FALSE, error |-> NoError, raw |-> response.body]
    ELSE [raised |-> TRUE, error |-> InstallError("HTTPError", "", "", "", ""), raw |-> <<>>]

\* _assert_is_zip: the error raised for data, NoError when it returns.
_assert_is_zip_lengthOnly(data, url) ==
    IF Len(data) < 4
    THEN InstallError("too_small", url, "", "", "")
    ELSE NoError

_assert_is_zip(data, url) ==
    IF Len(data) < 4
    THEN InstallError("too_small", url, "", "", "")
    ELSE IF SubSeq(data, 1, 2) # <<80, 75>>
    THEN InstallError("not_a_zip", url, "", "", "")
    ELSE NoError

(***************************************************************************)
(* parsers/manager.py: _ParserAdapter over an engine of sekai_parsers.     *)
(* The engine modelled keeps every byte: it reads the whole file as one    *)
(* translatable block whose text has one code point per byte, and writes   *)
(* texts back the same way.  Its kind is the method it rebuilds with:      *)
(* "compile" (blocks), "export" (entries) or "none".                       *)
(***************************************************************************)
EngineKinds == {"compile", "export", "none"}

\* self._p.parse(data=data, file_path=fp)
engine_parse(data) ==
    IF data = <<>> THEN <<>> ELSE <<[block_id |-> "0", text |-> data, translatable |-> TRUE]>>

\* compile_fn(file_path=fp, blocks=..., meta=...).data and export_fn(original_bytes, entries, file_path=fp)
RECURSIVE engine_write(_)
engine_write(blocks) ==
    IF blocks = <<>> THEN <<>> ELSE Head(blocks).text \o engine_write(Tail(blocks))

\* _ParserAdapter._encode_text(text, enc)
adapter_encode_text(text, enc) ==
    IF PyCodec(enc) = "none" THEN PyEncode(text, "utf-8") ELSE PyEncode(text, PyCodec(enc))

\* _ParserAdapter._decode_bytes(data, enc)
adapter_decode_bytes(data, enc) ==
    IF PyCodec(enc) = "none" THEN PyDecode(data, "utf-8", "replace")
    ELSE PyDecode(data, PyCodec(enc), "replace")

\* _ParserAdapter.parse(ctx, text): enc is project["encoding"] or "utf-8".
adapter_parse(enc, text) ==
    LET blocks == engine_parse(adapter_encode_text(text, IF enc = "" THEN "utf-8" ELSE enc))
    IN  [i \in DOMAIN blocks |->
            [id |-> blocks[i].block_id, original |-> blocks[i].text,
             translation |-> <<>>, last_committed |-> <<>>]]

\* The text rebuild puts in the block or entry of key k: by_id / by_key of rebuild.
replacement(kind, entries, k, orig) ==
    LET hit == {j \in DOMAIN entries : entries[j].id = k}
        e == entries[CHOOSE j \in hit : \A m \in hit : m <= j]
        t == IF e.translation # <<>> THEN e.translation ELSE e.last_committed
    IN  IF hit = {} THEN orig
        ELSE IF t # <<>> THEN t
        ELSE IF kind = "export" THEN e.original ELSE orig

\* _ParserAdapter.rebuild(ctx, entries)
adapter_rebuild(kind, enc, original_text, entries) ==
    LET enc1 == IF enc = "" THEN "utf-8" ELSE enc
        parsed == engine_parse(adapter_encode_text(original_text, enc1))
        out == [i \in DOMAIN parsed |->
                  [parsed[i] EXCEPT !.text = replacement(kind, entries, parsed[i].block_id, parsed[i].text)]]
    IN  IF kind = "none" THEN original_text
        ELSE adapter_decode_bytes(engine_write(out), enc1)

(***************************************************************************)
(* views/file_tab.py: FileTab.export_to_disk.  The parser handed in is     *)
(* None, an object without rebuild, or a handler; what its rebuild does is *)
(* an input: it raises, or returns bytes, a str, or another object (None). *)
(***************************************************************************)
ParserKinds == {"None", "no_rebuild", "handler"}

ExportChars == {97, LF, 12354}

RebuildOutcomes ==
    [type : {"raises", "other"}, data : {<<>>}]
    \cup [type : {"bytes"}, data : SeqUpTo({97, 130, 160}, MaxBodyLen)]
    \cup [type : {"str"}, data : SeqUpTo(ExportChars, MaxTextLen)]

\* project.json as the export reads it: "encoding" (what save_project keeps,
\* "auto" since input encodings are detected per file) and "export_encoding",
\* the output encoding of the project settings.
ExportProjects ==
    [encoding : {"", "auto", "cp932", "utf-8 "}, export_encoding : {"utf-8", "cp932", "utf-16-le"}]

\* os.linesep of the platform: text-mode files write it for every "\n".
LineSeps == {<<LF>>, <<CR, LF>>}

\* compute_export_path(project, self.file_path)
compute_export_path == "exports/scene.ks"

NotWritten == [exists |-> FALSE, data |-> <<>>]

ExportRaises(error) == [raised |-> TRUE, error |-> error, file |-> NotWritten, out_path |-> ""]

Exported(data) ==
    [raised |-> FALSE, error |-> "", file |-> [exists |-> TRUE, data |-> data],
     out_path |-> compute_export_path]

\* The encoding export_to_disk opens the text file with:
\* (project.get("encoding") or "utf-8").strip() or "utf-8", and utf-8 when
\* "".encode(encoding) raises.
export_text_encoding(project) ==
    IF StripLabel(project.encoding) = "" \/ PyCodec(StripLabel(project.encoding)) = "none"
    THEN "utf-8"
    ELSE PyCodec(StripLabel(project.encoding))

\* export_to_disk that writes the str() of whatever rebuild returned.
export_to_disk_noTypeCheck(project, parser, out, linesep) ==
    IF parser = "None" THEN ExportRaises("RuntimeError: parser")
    ELSE IF parser = "no_rebuild" THEN ExportRaises("RuntimeError: rebuild")
    ELSE IF out.type = "raises" THEN Exported(<<>>)
    ELSE IF out.type = "bytes" THEN Exported(out.data)
    ELSE Exported(PyEncode(Replace(out.data, <<LF>>, linesep), export_text_encoding(project)))

\* FileTab.export_to_disk(project, parser=parser, ctx=ctx) with out what
\* parser.rebuild(ctx, entries) does: the exception raised or the path
\* returned, and the file at the export path.
export_to_disk(project, parser, out, linesep) ==
    IF parser = "None" THEN ExportRaises("RuntimeError: parser")
    ELSE IF parser = "no_rebuild" THEN ExportRaises("RuntimeError: rebuild")
    ELSE IF out.type = "raises" THEN ExportRaises("rebuild")
    ELSE IF out.type = "bytes" THEN Exported(out.data)
    ELSE IF out.type # "str" THEN ExportRaises("RuntimeError: type")
    ELSE Exported(PyEncode(Replace(out.data, <<LF>>, linesep), export_text_encoding(project)))

(***************************************************************************)
(* parsers/entries.py: new_entry.                                          *)
(***************************************************************************)
\* The strings passed as status: canonical values, other casings and
\* spacings, legacy spellings, unknown words, empty and blank strings.
StatusWords ==
    {"untranslated", "translated", "Reviewed", " In Progress ", "inprogress",
     "NOT TRANSLATED", "done", "Approved", "pending", "in-progress", "", "  "}

\* The status argument: a str, None, or an int.
StatusArgs ==
    [type : {"str"}, value : StatusWords]
    \cup {[type |-> "None", value |-> ""], [type |-> "int", value |-> "5"]}

\* s.strip().lower().replace(' ', '_') on the strings above.
strip_lower_underscore(s) ==
    CASE s = "Reviewed" -> "reviewed"
      [] s = " In Progress " -> "in_progress"
      [] s = "NOT TRANSLATED" -> "not_translated"
      [] s = "Approved" -> "approved"
      [] s = "  " -> ""
      [] OTHER -> s

\* The status new_entry stores for the normalized string s2.
status_of(s2) ==
    CASE s2 \in {"untranslated", "not_translated"} -> "untranslated"
      [] s2 \in {"in_progress", "inprogress"} -> "in_progress"
      [] s2 \in {"translated", "done"} -> "translated"
      [] s2 \in {"reviewed", "approved"} -> "reviewed"
      [] OTHER -> IF s2 = "" THEN "untranslated" ELSE s2

\* new_entry(original, translation, status) without extra fields.
new_entry(original, translation, status) ==
    [original |-> original,
     translation |-> translation,
     status |-> IF status.type # "str" \/ status.value = ""
                THEN "untranslated"
                ELSE status_of(strip_lower_underscore(status.value))]

(***************************************************************************)
(* State.  call/ret: the last call made on a stateless service and what it *)
(* returned.                                                               *)
(***************************************************************************)
NoCall == [op |-> "none"]

Pending == [done |-> FALSE]

Returned(v) == [done |-> TRUE, val |-> v]

VARIABLES call, ret

\* The registry: _by_id, the handlers' extensions attributes, and the
\* register calls made so far (plugin, source, whether the call raised).
VARIABLES by_id, plugin_ext, reg_log

\* The selector: what mgr.all_plugins() returns, the handlers' _sekai_exts_lower
\* caches, and the select_parser calls made so far with their results.
VARIABLES loaded, exts_cache, sel_log

\* The project on disk and in the window: the bytes of the one file, the
\* project's "encoding", the file's state file, its tab, and the encodings
\* chosen by the opens so far (with whether the tab's state was saved since).
VARIABLES disk, project_encoding, state_file, tab, open_log

\* The installer: the live repo_dir(), the previous install, the built repo,
\* staging and backup inside the swap's temporary directory, whether that
\* directory is on the filesystem of repo_dir(), and the installer's position.
VARIABLES live, old_install, built_repo, staging, backup, same_fs, install_pc

\* The parser manager: the module's _PARSER_MANAGER_SINGLETON (0 is None),
\* the ParserManager objects made so far with their _backend (0 is None, else
\* the generation of the parsers repository its sekai_parsers import saw) and
\* _cache (the adapters built, as <<parser id, generation>>), the generation
\* of the repository on disk, the position of the thread in reload_parsers
\* with the manager it holds, and a second thread: the manager it got from
\* get_parser_manager() and the adapters get_parser has returned to it.
VARIABLES _PARSER_MANAGER_SINGLETON, _backend, _cache, created, repo_gen,
          reload_pc, reload_mgr, held, seen

\* Whether the user has asked to cancel the handler-bundle install.
VARIABLES cancel_requested

\* _atomic_write_json: the temp file mkstemp made next to the state file,
\* and the position of the call.
VARIABLES tmp_file, write_pc

\* The IPC client: self.proc (0 is None, else the number of the core process
\* started), how many were started, which of them still run, _running,
\* _next_id, the ids in _pending, each request's Queue(maxsize=1), what each
\* core process has received and not answered, what it has written to its
\* stdout and the reader has not read, each process's _read_stdout thread,
\* and the threads that call send.
VARIABLES proc, started, alive, _running, _next_id, _pending, queue, written, stdout, reader, sender

\* The edit session: self.entries (the selected entry dicts, shared with the
\* table), self.rows, _current_lines, _changed_indices, _active; and, kept
\* for the statements below, the entries as they were when the session
\* started, the indices of the lines the user has changed since, and what
\* the last commit returned.
VARIABLES entries, rows, _current_lines, _changed_indices, _active, entries_at_start, edited, committed

\* The updater: the position of download_and_install, which of the two
\* files _download_file is fetching, the installer and the hash file in the
\* temporary directory, what cancel_cb() returns, and whether the installer
\* was started.
VARIABLES upd_pc, current, exe_path, sha_path, cancel_flag, launched

codecVars == <<call, ret>>

installVars == <<live, old_install, built_repo, staging, backup, same_fs, install_pc>>

projectVars == <<disk, project_encoding, state_file, tab, open_log>>

selectorVars == <<loaded, exts_cache, sel_log>>

registryVars == <<by_id, plugin_ext, reg_log>>

managerVars == <<_PARSER_MANAGER_SINGLETON, _backend, _cache, created, repo_gen,
                 reload_pc, reload_mgr, held, seen>>

cancelVars == <<cancel_requested>>

writeVars == <<tmp_file, write_pc>>

ipcVars == <<proc, started, alive, _running, _next_id, _pending, queue, written, stdout, reader, sender>>

editVars == <<entries, rows, _current_lines, _changed_indices, _active, entries_at_start, edited, committed>>

updateVars == <<upd_pc, current, exe_path, sha_path, cancel_flag, launched>>

laterVars == <<managerVars, cancelVars, writeVars, ipcVars, editVars, updateVars>>

otherThanManager == <<codecVars, registryVars, selectorVars, projectVars, installVars, cancelVars, writeVars, ipcVars, editVars, updateVars>>

otherThanCancel == <<managerVars, writeVars, ipcVars, editVars, updateVars>>

otherThanWrite == <<managerVars, cancelVars, ipcVars, editVars, updateVars>>

otherThanIpc == <<managerVars, cancelVars, writeVars, editVars, updateVars>>

otherThanEdit == <<managerVars, cancelVars, writeVars, ipcVars, updateVars>>

otherThanUpdate == <<managerVars, cancelVars, writeVars, ipcVars, editVars>>

vars == <<call, ret, by_id, plugin_ext, reg_log, loaded, exts_cache, sel_log,
          disk, project_encoding, state_file, tab, open_log,
          live, old_install, built_repo, staging, backup, same_fs, install_pc,
          laterVars>>

IdleCodec == call = NoCall /\ ret = Pending

IdleManager ==
    /\ _PARSER_MANAGER_SINGLETON = 0
    /\ _backend = [m \in 1..MaxManagers |-> 0]
    /\ _cache = [m \in 1..MaxManagers |-> {}]
    /\ created = 0
    /\ repo_gen = 1
    /\ reload_pc = "idle"
    /\ reload_mgr = 0
    /\ held = 0
    /\ seen = <<>>

IdleCancel == cancel_requested = FALSE

IdleWrite ==
    /\ tmp_file = NoStateFile
    /\ write_pc = "idle"

IdleIpc ==
    /\ proc = 0
    /\ started = 0
    /\ alive = [g \in 1..MaxProcs |-> FALSE]
    /\ _running = FALSE
    /\ _next_id = 1
    /\ _pending = {}
    /\ queue = [i \in 1..MaxRequests |-> NoMsg]
    /\ written = [g \in 1..MaxProcs |-> {}]
    /\ stdout = [g \in 1..MaxProcs |-> {}]
    /\ reader = [g \in 1..MaxProcs |-> "none"]
    /\ sender = [t \in Senders |-> [pc |-> "idle", req_id |-> 0, sent_to |-> 0, result |-> NoMsg]]

IdleEdit ==
    /\ entries = <<>>
    /\ rows = <<>>
    /\ _current_lines = <<>>
    /\ _changed_indices = {}
    /\ _active = FALSE
    /\ entries_at_start = <<>>
    /\ edited = {}
    /\ committed = [done |-> FALSE, changed_rows |-> <<>>]

IdleUpdate ==
    /\ upd_pc = "idle"
    /\ current = "none"
    /\ exe_path = NoFile
    /\ sha_path = "absent"
    /\ cancel_flag = FALSE
    /\ launched = FALSE

IdleLater == IdleManager /\ IdleCancel /\ IdleWrite /\ IdleIpc /\ IdleEdit /\ IdleUpdate

IdleRegistry ==
    /\ by_id = <<>>
    /\ plugin_ext = [h \in HandlerNames |-> Handlers[h].extensions]
    /\ reg_log = <<>>

IdleSelector ==
    /\ loaded = <<>>
    /\ exts_cache = [h \in HandlerNames |-> NotCached]
    /\ sel_log = <<>>

IdleInstall ==
    /\ live = Dir({})
    /\ old_install = {}
    /\ built_repo = {}
    /\ staging = NoDir
    /\ backup = NoDir
    /\ same_fs = TRUE
    /\ install_pc = "idle"

IdleProject ==
    /\ disk = <<>>
    /\ project_encoding = "auto"
    /\ state_file = NoStateFile
    /\ tab = ClosedTab
    /\ open_log = <<>>

(***************************************************************************)
(* SpecCodec: calls of EncodingService.encode_text / decode_bytes /        *)
(* normalize_newlines on every modelled input.                             *)
(***************************************************************************)
EncodeTextCalls ==
    {[op |-> "encode_text", text |-> t, encoding |-> e, newline_style |-> n, add_bom |-> b] :
        t \in Texts, e \in EncLabels, n \in NewlineArgs, b \in BOOLEAN}

DecodeBytesCalls ==
    {[op |-> "decode_bytes", data |-> d, encoding |-> e, errors |-> er] :
        d \in FileBytes, e \in EncLabels, er \in {"strict", "replace"}}

NormalizeNewlinesCalls ==
    {[op |-> "normalize_newlines", text |-> t, newline_style |-> n] : t \in Texts, n \in NewlineArgs}

InitCodec ==
    /\ call \in EncodeTextCalls \cup DecodeBytesCalls \cup NormalizeNewlinesCalls
    /\ ret = Pending
    /\ IdleRegistry
    /\ IdleSelector
    /\ IdleProject
    /\ IdleInstall
    /\ IdleLater

EncodeText ==
    /\ call.op = "encode_text" /\ ~ret.done
    /\ ret' = Returned(encode_text(call.text, call.encoding, call.newline_style, call.add_bom))
    /\ UNCHANGED <<call, registryVars, selectorVars, projectVars, installVars, laterVars>>

DecodeBytes ==
    /\ call.op = "decode_bytes" /\ ~ret.done
    /\ ret' = Returned(decode_bytes(call.data, call.encoding, call.errors))
    /\ UNCHANGED <<call, registryVars, selectorVars, projectVars, installVars, laterVars>>

NormalizeNewlines ==
    /\ call.op = "normalize_newlines" /\ ~ret.done
    /\ ret' = Returned(normalize_newlines(call.text, call.newline_style))
    /\ UNCHANGED <<call, registryVars, selectorVars, projectVars, installVars, laterVars>>

NextCodec == EncodeText \/ DecodeBytes \/ NormalizeNewlines

SpecCodec == InitCodec /\ [][NextCodec]_vars

(***************************************************************************)
(* Properties of the codec.                                                *)
(***************************************************************************)

\* One left-to-right pass that turns every line break (CR LF, lone CR, LF) into nl.
RECURSIVE LineBreaksTo(_, _)
LineBreaksTo(t, nl) ==
    IF Len(t) = 0 THEN <<>>
    ELSE IF Len(t) >= 2 /\ t[1] = CR /\ t[2] = LF THEN nl \o LineBreaksTo(SubSeq(t, 3, Len(t)), nl)
    ELSE IF t[1] \in {CR, LF} THEN nl \o LineBreaksTo(Tail(t), nl)
    ELSE <<t[1]>> \o LineBreaksTo(Tail(t), nl)

\* C8: encode_text(t, "utf-8", newline_style=s, add_bom=True), s one of "\n" and
\* "\r\n", returns EF BB BF followed by the UTF-8 bytes of t with every line
\* break (CR LF, lone CR, LF) rewritten to s.
C8_EncodeNormalizesAndAddsBom ==
    (ret.done /\ call.op = "encode_text" /\ call.encoding = "utf-8"
        /\ call.add_bom /\ call.newline_style \in {NL_LF, NL_CRLF})
    => ret.val = BOM_UTF8 \o EncodeChars(LineBreaksTo(call.text, call.newline_style), "utf-8")

\* "a\nb" with "\r\n" and add_bom gave EF BB BF a \r \n b.
C8_Witness ==
    /\ ret.done /\ call.op = "encode_text" /\ call.encoding = "utf-8" /\ call.add_bom
    /\ call.text = <<97, LF, 98>> /\ call.newline_style = NL_CRLF
    /\ ret.val = <<239, 187, 191, 97, 13, 10, 98>>

Utf8Family == {"utf-8", "utf8", "UTF-8", "utf-8-sig", "utf_8_sig", "utf-8 "}

Utf16Family == {"utf-16", "UTF_16"}

Utf16LeFamily == {"utf-16-le", "utf-16le", "utf-16-le-bom"}

Utf16BeFamily == {"utf-16-be", "utf-16be", "utf-16-be-bom"}

BomAliases == {"utf-8-sig", "utf_8_sig", "utf-16-le-bom", "utf-16-be-bom"}

FamilyBom(l) ==
    CASE l \in Utf8Family -> BOM_UTF8
      [] l \in Utf16Family \cup Utf16LeFamily -> BOM_UTF16_LE
      [] l \in Utf16BeFamily -> BOM_UTF16_BE

\* C9: for the families utf-8, utf-16, utf-16-le, utf-16-be the bytes returned by
\* encode_text begin with exactly one BOM of the family when add_bom is true (or
\* the label is a -sig / -bom alias) and with no BOM when add_bom is false.
C9_BomControlledByAddBom ==
    (ret.done /\ call.op = "encode_text"
        /\ call.encoding \in Utf8Family \cup Utf16Family \cup Utf16LeFamily \cup Utf16BeFamily)
    => LET bom == FamilyBom(call.encoding)
           out == ret.val
       IN  IF call.add_bom \/ call.encoding \in BomAliases
           THEN /\ StartsWith(out, bom)
                /\ ~StartsWith(SubSeq(out, Len(bom) + 1, Len(out)), bom)
           ELSE ~StartsWith(out, bom)

\* C10: whatever label the bytes are decoded with, a DecodedText reports had_bom
\* exactly when the bytes start with EF BB BF, FF FE or FE FF, and newline_style
\* "\r\n" exactly when some CR is directly followed by LF in the bytes.
C10_DecodeReportsBomAndNewline ==
    (ret.done /\ call.op = "decode_bytes" /\ ~ret.val.raised)
    => LET d == call.data
           bom == \/ Len(d) >= 3 /\ d[1] = 239 /\ d[2] = 187 /\ d[3] = 191
                  \/ Len(d) >= 2 /\ d[1] = 255 /\ d[2] = 254
                  \/ Len(d) >= 2 /\ d[1] = 254 /\ d[2] = 255
           crlf == \E i \in 1..(Len(d) - 1) : d[i] = CR /\ d[i + 1] = LF
       IN  /\ ret.val.had_bom = bom
           /\ ret.val.newline_style = (IF crlf THEN NL_CRLF ELSE NL_LF)

\* EF BB BF \r \n decoded under the wrong label windows-1252 still reported
\* the BOM and the CR LF style.
C10_Witness ==
    /\ ret.done /\ call.op = "decode_bytes" /\ call.encoding = "windows-1252"
    /\ call.data = <<239, 187, 191, 13, 10>>
    /\ ~ret.val.raised /\ ret.val.had_bom /\ ret.val.newline_style = NL_CRLF

\* The position of a normalized id in the order of Python's str comparison.
IdRank(pid) == CHOOSE k \in 1..Len(SortedIds) : SortedIds[k] = pid

\* The sort key of ParserRegistry.all for the entry of pid: (0 if the source
\* is external else 1, pid), as one number.
all_key(reg, pid) ==
    (IF reg[pid].source = "external" THEN 0 ELSE Len(SortedIds)) + IdRank(pid)

\* all() sorted by the id alone.
RECURSIVE registry_all_byId(_, _)
registry_all_byId(reg, left) ==
    IF left = {} THEN <<>>
    ELSE LET first == CHOOSE pid \in left : \A q \in left : IdRank(pid) <= IdRank(q)
         IN  <<[id |-> first, plugin |-> reg[first].plugin, source |-> reg[first].source]>>
             \o registry_all_byId(reg, left \ {first})

\* ParserRegistry.all(): the entries of the ids in left, sorted by all_key.
RECURSIVE registry_all(_, _)
registry_all(reg, left) ==
    IF left = {} THEN <<>>
    ELSE LET first == CHOOSE pid \in left : \A q \in left : all_key(reg, pid) <= all_key(reg, q)
         IN  <<[id |-> first, plugin |-> reg[first].plugin, source |-> reg[first].source]>>
             \o registry_all(reg, left \ {first})

(***************************************************************************)
(* SpecRegistry: any sequence of at most MaxRegs register calls on an      *)
(* empty ParserRegistry, and calls of all().                               *)
(***************************************************************************)
InitRegistry ==
    /\ IdleCodec
    /\ IdleRegistry
    /\ IdleSelector
    /\ IdleProject
    /\ IdleInstall
    /\ IdleLater

Register ==
    \E h \in HandlerNames, src \in Sources :
        /\ Len(reg_log) < MaxRegs
        /\ LET r == register(by_id, plugin_ext, h, src)
           IN  /\ by_id' = r.by_id
               /\ plugin_ext' = r.extensions
               /\ reg_log' = Append(reg_log, [plugin |-> h, source |-> src, raised |-> r.raised])
        /\ call' = NoCall
        /\ ret' = Pending
        /\ UNCHANGED <<selectorVars, projectVars, installVars, laterVars>>

\* ParserRegistry.all() on the registry as it is.
RegistryAll ==
    /\ call = NoCall
    /\ call' = [op |-> "all"]
    /\ ret' = Returned(registry_all(by_id, DOMAIN by_id))
    /\ UNCHANGED <<registryVars, selectorVars, projectVars, installVars, laterVars>>

NextRegistry == Register \/ RegistryAll

SpecRegistry == InitRegistry /\ [][NextRegistry]_vars

\* The accepted registrations of the normalized id pid, as positions of reg_log.
AcceptedFor(pid, source) ==
    {i \in 1..Len(reg_log) :
        /\ ~reg_log[i].raised
        /\ norm_id(Handlers[reg_log[i].plugin].plugin_id) = pid
        /\ reg_log[i].source = source}

Max(S) == CHOOSE x \in S : \A y \in S : y <= x

\* C2: per normalized plugin_id, once an external registration was accepted the
\* active entry is the last accepted external one, whatever builtin
\* registrations came before or after it.
C2_ExternalWins ==
    \A pid \in {norm_id(Handlers[h].plugin_id) : h \in HandlerNames} :
        AcceptedFor(pid, "external") # {}
        => /\ pid \in DOMAIN by_id
           /\ by_id[pid] = [plugin |-> reg_log[Max(AcceptedFor(pid, "external"))].plugin,
                            source |-> "external"]

\* builtin "kirikiri.ks", then an external handler of the same normalized id,
\* then the builtin again: the external instance is the active one.
C2_Witness ==
    /\ Len(reg_log) = 3
    /\ reg_log[1] = [plugin |-> "ks9", source |-> "builtin", raised |-> FALSE]
    /\ reg_log[2] = [plugin |-> "ks9b", source |-> "external", raised |-> FALSE]
    /\ reg_log[3] = [plugin |-> "ks9", source |-> "builtin", raised |-> FALSE]
    /\ by_id["kirikiri.ks"] = [plugin |-> "ks9b", source |-> "external"]

\* Whether handler h breaks the contract register checks: no plugin_id after
\* trimming, or a missing detect, parse or rebuild.
BreaksContract(h) ==
    \/ norm_id(Handlers[h].plugin_id) = ""
    \/ ~({"detect", "parse", "rebuild"} \subseteq Handlers[h].callables)

\* The registry and the extensions that the register calls of log from
\* position i on make of reg and exts, the calls that raised left out.
RECURSIVE AcceptedOnly(_, _, _, _)
AcceptedOnly(log, i, reg, exts) ==
    IF i > Len(log) THEN [by_id |-> reg, extensions |-> exts]
    ELSE IF log[i].raised THEN AcceptedOnly(log, i + 1, reg, exts)
    ELSE LET r == register(reg, exts, log[i].plugin, log[i].source)
         IN  AcceptedOnly(log, i + 1, r.by_id, r.extensions)

\* C21: a register call raises exactly for a handler that breaks the
\* contract; the registry and the handlers' extensions are what the calls
\* that did not raise make of them, as if the rejected calls had never been
\* made; and the id of every handler whose call did not raise is retrievable
\* by get.
C21_RejectsInIsolation ==
    /\ \A i \in 1..Len(reg_log) : reg_log[i].raised <=> BreaksContract(reg_log[i].plugin)
    /\ by_id = AcceptedOnly(reg_log, 1, <<>>,
                            [h \in HandlerNames |-> Handlers[h].extensions]).by_id
    /\ plugin_ext = AcceptedOnly(reg_log, 1, <<>>,
                                 [h \in HandlerNames |-> Handlers[h].extensions]).extensions
    /\ \A i \in 1..Len(reg_log) :
          ~reg_log[i].raised =>
              registry_get(by_id, Handlers[reg_log[i].plugin].plugin_id).plugin # "None"

\* A handler without id was rejected between two accepted registrations, and
\* both accepted handlers are in the registry.
C21_Witness ==
    /\ Len(reg_log) = 3
    /\ reg_log[1] = [plugin |-> "ks9", source |-> "external", raised |-> FALSE]
    /\ reg_log[2] = [plugin |-> "noid", source |-> "external", raised |-> TRUE]
    /\ reg_log[3] = [plugin |-> "txt9", source |-> "builtin", raised |-> FALSE]
    /\ registry_get(by_id, "kirikiri.ks").plugin = "ks9"
    /\ registry_get(by_id, "txt").plugin = "txt9"

\* C22: what all() returns holds every id of the registry exactly once with
\* its active entry, every external entry before every builtin one, and the
\* ids of each group in ascending order.
C22_AllOrdered ==
    (call.op = "all" /\ ret.done) =>
        /\ Len(ret.val) = Cardinality(DOMAIN by_id)
        /\ \A pid \in DOMAIN by_id :
              \E i \in 1..Len(ret.val) :
                  ret.val[i] = [id |-> pid, plugin |-> by_id[pid].plugin,
                                source |-> by_id[pid].source]
        /\ \A i, j \in 1..Len(ret.val) :
              i < j =>
                  /\ ret.val[i].source = "builtin" => ret.val[j].source = "builtin"
                  /\ ret.val[i].source = ret.val[j].source
                     => IdRank(ret.val[i].id) < IdRank(ret.val[j].id)

\* Registered as builtin boom, external zero, external kirikiri.ks: all()
\* returned kirikiri.ks, zero, boom.
C22_Witness ==
    /\ call.op = "all"
    /\ ret.done
    /\ Len(reg_log) = 3
    /\ reg_log[1].plugin = "boom" /\ reg_log[1].source = "builtin"
    /\ reg_log[2].plugin = "zero" /\ reg_log[2].source = "external"
    /\ reg_log[3].plugin = "ks9" /\ reg_log[3].source = "external"
    /\ Len(ret.val) = 3
    /\ ret.val[1].id = "kirikiri.ks"
    /\ ret.val[2].id = "zero"
    /\ ret.val[3].id = "boom"

(***************************************************************************)
(* SpecSelector: at most MaxCalls select_parser calls against a fixed list *)
(* of at most MaxPlugins loaded handlers.                                  *)
(***************************************************************************)
Loadable == {"ks9", "any5", "any9", "txt9", "boom", "zero", "listed"}

InitSelector ==
    /\ IdleCodec
    /\ by_id = <<>>
    /\ reg_log = <<>>
    /\ plugin_ext = [h \in HandlerNames |-> Handlers[h].extensions]
    /\ loaded \in {q \in SeqUpTo(Loadable, MaxPlugins) : \A i, j \in 1..Len(q) : q[i] = q[j] => i = j}
    /\ exts_cache = [h \in HandlerNames |-> NotCached]
    /\ sel_log = <<>>
    /\ IdleProject
    /\ IdleInstall
    /\ IdleLater

\* What sel_log keeps of a call and its result r.
Logged(via, pid, f, r) ==
    [via |-> via, parser_id |-> pid, file_path |-> f, how |-> r.how, handler |-> r.handler,
     called |-> r.called, message |-> r.message]

SelectParser ==
    \E pid \in ParserIds, f \in Files :
        /\ Len(sel_log) < MaxCalls
        /\ exts_cache' = select_parser(loaded, plugin_ext, exts_cache, pid, f).cache
        /\ sel_log' = Append(sel_log, Logged("select_parser", pid, f,
                                 select_parser(loaded, plugin_ext, exts_cache, pid, f)))
        /\ UNCHANGED <<codecVars, registryVars, loaded, projectVars, installVars, laterVars>>

\* ctx.file_path of the calls of _select_parser_with_fallback.
FallbackFiles == {"README"}

SelectParserWithFallback ==
    \E pid \in ParserIds, f \in FallbackFiles :
        /\ Len(sel_log) < MaxCalls
        /\ exts_cache' = _select_parser_with_fallback(loaded, plugin_ext, exts_cache, pid, f).cache
        /\ sel_log' = Append(sel_log, Logged("_select_parser_with_fallback", pid, f,
                                 _select_parser_with_fallback(loaded, plugin_ext, exts_cache, pid, f)))
        /\ UNCHANGED <<codecVars, registryVars, loaded, projectVars, installVars, laterVars>>

NextSelector == SelectParser \/ SelectParserWithFallback

SpecSelector == InitSelector /\ [][NextSelector]_vars

\* The candidates of an autodetect on file f, as positions of loaded: handlers
\* whose declared extensions are empty or contain f's lower-cased extension and
\* on which neither detect nor the caching of the extensions raises.
Candidates(f) ==
    {i \in 1..Len(loaded) :
        LET raw == IF plugin_ext[loaded[i]] = NoExtensions THEN {} ELSE plugin_ext[loaded[i]] \ {""}
        IN  /\ raw = {} \/ \E e \in raw : LowerExt(e) = LowerExt(SplitExt(f))
            /\ ~Handlers[loaded[i]].raises
            /\ ~Handlers[loaded[i]].frozen}

\* C3: a handler returned by autodetect is the first one, in the order of the
\* loaded list, whose detect score is the maximum over the candidates; and two
\* calls with the same arguments return the same result.
C3_FirstMaxAndDeterministic ==
    /\ \A k \in 1..Len(sel_log) :
          sel_log[k].how = "detected"
          => \E i \in Candidates(sel_log[k].file_path) :
                /\ loaded[i] = sel_log[k].handler
                /\ \A j \in Candidates(sel_log[k].file_path) :
                      /\ Handlers[loaded[j]].detect <= Handlers[loaded[i]].detect
                      /\ j < i => Handlers[loaded[j]].detect < Handlers[loaded[i]].detect
    /\ \A k, m \in 1..Len(sel_log) :
          (/\ sel_log[k].via = sel_log[m].via
           /\ sel_log[k].parser_id = sel_log[m].parser_id
           /\ sel_log[k].file_path = sel_log[m].file_path)
          => (sel_log[k].how = sel_log[m].how /\ sel_log[k].handler = sel_log[m].handler)

\* On scene.ks the handler declaring .ks and scoring 0.9 was returned, twice,
\* although the handler without extensions scoring 0.5 comes first in the list.
C3_Witness ==
    /\ loaded = <<"any5", "ks9">>
    /\ Len(sel_log) = 2
    /\ \A k \in 1..2 :
          /\ sel_log[k].via = "select_parser"
          /\ sel_log[k].parser_id = ""
          /\ sel_log[k].file_path = "scene.ks"
          /\ sel_log[k].how = "detected"
          /\ sel_log[k].handler = "ks9"

\* C13: a call that supplies a handler id returns the registered handler of
\* that id; and when the id is not registered but has a dot and the id
\* before its last dot is registered, it returns the handler of that base id.
C13_ExplicitIdWithBaseFallback ==
    \A k \in 1..Len(sel_log) :
        sel_log[k].parser_id # "" =>
            /\ mgr_get(loaded, sel_log[k].parser_id) # "None"
               => sel_log[k].handler = mgr_get(loaded, sel_log[k].parser_id)
            /\ (/\ mgr_get(loaded, sel_log[k].parser_id) = "None"
                /\ has_dot(sel_log[k].parser_id)
                /\ mgr_get(loaded, rsplit_base(sel_log[k].parser_id)) # "None")
               => sel_log[k].handler = mgr_get(loaded, rsplit_base(sel_log[k].parser_id))

\* The extensions handler h declares: its non-empty extensions, lower-cased.
DeclaredExts(h) ==
    {LowerExt(e) : e \in (IF plugin_ext[h] = NoExtensions THEN {} ELSE plugin_ext[h] \ {""})}

InSeq(x, q) == \E i \in 1..Len(q) : q[i] = x

ScanRan(k) ==
    /\ sel_log[k].via = "select_parser"
    /\ sel_log[k].how \in {"detected", "ParserError"}

WithoutRaisers(k) ==
    SelectSeq(loaded, LAMBDA h : ~(Handlers[h].raises /\ InSeq(h, sel_log[k].called)))

\* C15: a call of select_parser in which the detect of a handler raised
\* ends as select_parser ends, with a handler or a ParserError, and with the
\* same outcome and handler as the call over the loaded list without that
\* handler.
C15_DetectIsolation ==
    \A k \in 1..Len(sel_log) :
        (/\ sel_log[k].via = "select_parser"
         /\ \E i \in 1..Len(sel_log[k].called) : Handlers[sel_log[k].called[i]].raises) =>
            /\ sel_log[k].how \in {"detected", "ParserError"}
            /\ sel_log[k].how =
                   select_parser(WithoutRaisers(k), plugin_ext, [h \in HandlerNames |-> NotCached],
                                 sel_log[k].parser_id, sel_log[k].file_path).how
            /\ sel_log[k].handler =
                   select_parser(WithoutRaisers(k), plugin_ext, [h \in HandlerNames |-> NotCached],
                                 sel_log[k].parser_id, sel_log[k].file_path).handler

\* The handler whose detect raises came first; the .ks handler after it was
\* still asked and returned.
C15_Witness ==
    /\ loaded = <<"boom", "ks9">>
    /\ Len(sel_log) >= 1
    /\ sel_log[1].via = "select_parser"
    /\ sel_log[1].file_path = "scene.ks"
    /\ sel_log[1].called = <<"boom", "ks9">>
    /\ sel_log[1].how = "detected"
    /\ sel_log[1].handler = "ks9"

\* C16: a call of select_parser that scans returns a handler only if that
\* handler's detect score is above zero, and raises ParserError exactly when
\* no candidate scores above zero; the message of the error then holds the
\* file's lower-cased extension (a placeholder when it has none) and the
\* plugin_id of every loaded handler.
C16_SelectionFailure ==
    \A k \in 1..Len(sel_log) :
        ScanRan(k) =>
            /\ sel_log[k].how = "detected" => Handlers[sel_log[k].handler].detect > 0
            /\ sel_log[k].how = "ParserError"
               <=> \A i \in Candidates(sel_log[k].file_path) : Handlers[loaded[i]].detect <= 0
            /\ sel_log[k].how = "ParserError" =>
                  /\ sel_log[k].message.ext =
                         IF SplitExt(sel_log[k].file_path) = ""
                         THEN "(sem extensão)"
                         ELSE LowerExt(SplitExt(sel_log[k].file_path))
                  /\ \A i \in 1..Len(loaded) :
                         InSeq(Handlers[loaded[i]].plugin_id, sel_log[k].message.available)

\* No handler loaded for .ks scores above zero on scene.ks: the error names
\* .ks and both loaded ids.
C16_Witness ==
    /\ loaded = <<"zero", "txt9">>
    /\ Len(sel_log) >= 1
    /\ ScanRan(1)
    /\ sel_log[1].file_path = "scene.ks"
    /\ sel_log[1].how = "ParserError"
    /\ sel_log[1].message.ext = ".ks"
    /\ sel_log[1].message.available = <<"txt", "zero">>

(***************************************************************************)
(* SpecStore: save_file_state and load_file_state on one state file.       *)
(***************************************************************************)
EntryLists ==
    {<<>>, <<[entry_id |-> "e1", translation |-> ""]>>, <<[entry_id |-> "e1", translation |-> "t"]>>}

StoreEncodings == {"", "utf-8", "cp932", "utf-8 "}

InitStore ==
    /\ call = [op |-> "none", after_save |-> FALSE, entries |-> <<>>, encoding |-> "",
               newline_style |-> <<>>, had_bom |-> FALSE]
    /\ ret = Pending
    /\ IdleRegistry
    /\ IdleSelector
    /\ disk = <<>>
    /\ project_encoding = "auto"
    /\ state_file \in {NoStateFile, CorruptStateFile}
    /\ tab = ClosedTab
    /\ open_log = <<>>
    /\ IdleInstall
    /\ IdleLater

SaveFileState ==
    \E ents \in EntryLists, e \in StoreEncodings, n \in NewlineArgs, b \in BOOLEAN :
        /\ state_file' = save_file_state(ents, e, n, b)
        /\ call' = [op |-> "save_file_state", after_save |-> FALSE, entries |-> ents,
                    encoding |-> e, newline_style |-> n, had_bom |-> b]
        /\ ret' = Returned("None")
        /\ UNCHANGED <<registryVars, selectorVars, disk, project_encoding, tab, open_log, installVars, laterVars>>

LoadFileState ==
    /\ call' = [call EXCEPT !.op = "load_file_state", !.after_save = (call.op = "save_file_state")]
    /\ ret' = Returned(load_file_state(state_file))
    /\ UNCHANGED <<registryVars, selectorVars, projectVars, installVars, laterVars>>

NextStore == SaveFileState \/ LoadFileState

SpecStore == InitStore /\ [][NextStore]_vars

\* C6: a load_file_state that follows save_file_state(entries, encoding=e,
\* newline_style=n, had_bom=b) with n either "\n" or "\r\n" returns a FileState
\* with the same entries, encoding, newline_style and had_bom.
C6_StateRoundTrip ==
    (call.op = "load_file_state" /\ call.after_save /\ call.newline_style \in {NL_LF, NL_CRLF})
    => ret.val = [found |-> TRUE, entries |-> call.entries, encoding |-> call.encoding,
                  newline_style |-> call.newline_style, had_bom |-> call.had_bom]

(***************************************************************************)
(* SpecOpen: one file of a project is opened, edited, saved to the state   *)
(* file and closed, at most MaxOpens times; the project may be saved.      *)
(***************************************************************************)
OpenBody == {129, 130, 160}

OpenBytes == {p \o b : p \in BomPrefixes, b \in SeqUpTo(OpenBody, MaxBodyLen)}

\* project["encoding"] as read from project.json: "auto", or what an older
\* project file holds.
ProjectEncodings == {"auto", "cp932", "windows-1252"}

\* State files found when the project is opened: none, or one written by the
\* batch replace, which records the encoding it chose.
InitialStateFiles ==
    {NoStateFile}
    \cup {save_file_state(<<[entry_id |-> "e1", translation |-> "t"]>>, e, NL_CRLF, FALSE) :
            e \in {"shift_jis", "utf-16"}}

\* What select_parser(ctx, text, raise_on_fail=True) and parser.parse(ctx, text) do.
ParseOutcomes ==
    {[raised |-> TRUE, entries |-> <<>>],
     [raised |-> FALSE, entries |-> <<[entry_id |-> "e1", translation |-> ""]>>]}

InitOpen ==
    /\ IdleCodec
    /\ IdleRegistry
    /\ IdleSelector
    /\ disk \in OpenBytes
    /\ project_encoding \in ProjectEncodings
    /\ state_file \in InitialStateFiles
    /\ tab = ClosedTab
    /\ open_log = <<>>
    /\ IdleInstall
    /\ IdleLater

OpenFile ==
    /\ ~tab.open
    /\ Len(open_log) < MaxOpens
    /\ \E parsed \in ParseOutcomes :
          LET r == open_file(disk, project_encoding, state_file, parsed)
          IN  /\ tab' = r.tab
              /\ open_log' = IF r.outcome = "opened"
                             THEN Append(open_log, [chosen |-> r.chosen, saved |-> FALSE])
                             ELSE open_log
              /\ call' = [op |-> "open_file", project_encoding |-> project_encoding,
                          state_file |-> state_file]
              /\ ret' = Returned(r)
    /\ UNCHANGED <<registryVars, selectorVars, disk, project_encoding, state_file, installVars, laterVars>>

\* The writes of FileTab.save_project_state.
TabSavesState ==
    /\ state_file' = save_file_state(tab.entries, "", <<>>, FALSE)
    /\ open_log' = [open_log EXCEPT ![Len(open_log)].saved = TRUE]

CommitTranslation ==
    /\ tab.open
    /\ tab.entries # <<>>
    /\ tab.entries[1].translation # "t"
    /\ tab' = [tab EXCEPT !.entries[1].translation = "t", !.dirty = TRUE]
    /\ UNCHANGED <<codecVars, registryVars, selectorVars, disk, project_encoding, state_file, open_log, installVars, laterVars>>

SaveProjectState ==
    /\ tab.open
    /\ TabSavesState
    /\ tab' = [tab EXCEPT !.dirty = FALSE]
    /\ UNCHANGED <<codecVars, registryVars, selectorVars, disk, project_encoding, installVars, laterVars>>

CloseTab ==
    /\ tab.open
    /\ \E res \in {"Save", "Discard", "Cancel"} :
          IF tab.dirty /\ res = "Cancel"
          THEN UNCHANGED <<tab, state_file, open_log>>
          ELSE IF tab.dirty /\ res = "Save"
          THEN TabSavesState /\ tab' = ClosedTab
          ELSE tab' = ClosedTab /\ UNCHANGED <<state_file, open_log>>
    /\ UNCHANGED <<codecVars, registryVars, selectorVars, disk, project_encoding, installVars, laterVars>>

SaveProject ==
    /\ project_encoding' = "auto"
    /\ UNCHANGED <<codecVars, registryVars, selectorVars, disk, state_file, tab, open_log, installVars, laterVars>>

NextOpen == OpenFile \/ CommitTranslation \/ SaveProjectState \/ CloseTab \/ SaveProject

SpecOpen == InitOpen /\ [][NextOpen]_vars

\* The ranked list of C7 for an open: recorded encoding, BOM-implied encoding,
\* project hint, then the fixed fallbacks ("" where there is none).
Ranked ==
    <<load_file_state(call.state_file).encoding,
      IF StartsWith(disk, BOM_UTF8) THEN "utf-8-sig"
      ELSE IF StartsWith(disk, BOM_UTF16_LE) \/ StartsWith(disk, BOM_UTF16_BE) THEN "utf-16" ELSE "",
      hint_encoding(call.project_encoding),
      "utf-8", "utf-8-sig", "cp932", "shift_jis", "windows-1252">>

StrictlyDecoding == {i \in 1..Len(Ranked) : Ranked[i] # "" /\ try_decode(disk, Ranked[i])}

C5_EncodingReused ==
    /\ (tab.open /\ open_log # <<>> /\ open_log[Len(open_log)].saved)
       => state_file.encoding = tab.input_encoding
    /\ \A i, j \in 1..Len(open_log) :
          (i < j /\ open_log[i].saved) => open_log[j].chosen = open_log[i].chosen

(***************************************************************************)
(* SpecInstall: one run of install_from_github_zip over a previous         *)
(* install, step by step; any step may raise.  call holds the server's     *)
(* answer and whether extractall has run, ret the exception that left the  *)
(* installer (NoError after a return).                                     *)
(***************************************************************************)
InitInstall ==
    /\ call \in [op : {"install_from_github_zip"}, response : Responses, extracted : {FALSE}]
    /\ ret = Pending
    /\ IdleRegistry
    /\ IdleSelector
    /\ IdleProject
    /\ IdleLater
    /\ old_install \in SUBSET PluginFiles
    /\ live = Dir(old_install)
    /\ built_repo = {}
    /\ staging = NoDir
    /\ backup = NoDir
    /\ same_fs \in BOOLEAN
    /\ install_pc = "idle"

otherThanInstall == <<registryVars, selectorVars, projectVars, laterVars>>

\* install_from_github_zip: ensure_dirs and _download_bytes.
Download ==
    /\ install_pc = "idle"
    /\ IF _download_bytes(call.response).raised
       THEN install_pc' = "failed" /\ ret' = Returned(_download_bytes(call.response).error)
       ELSE install_pc' = "assert_is_zip" /\ UNCHANGED ret
    /\ UNCHANGED <<call, live, old_install, built_repo, staging, backup, same_fs, otherThanInstall>>

\* install_from_github_zip: _assert_is_zip(raw, url=zip_url).
AssertIsZip ==
    /\ install_pc = "assert_is_zip"
    /\ IF _assert_is_zip(_download_bytes(call.response).raw, zip_url) # NoError
       THEN /\ install_pc' = "failed"
            /\ ret' = Returned(_assert_is_zip(_download_bytes(call.response).raw, zip_url))
       ELSE install_pc' = "extract" /\ UNCHANGED ret
    /\ UNCHANGED <<call, live, old_install, built_repo, staging, backup, same_fs, otherThanInstall>>

\* install_from_github_zip: zipfile.ZipFile(zip_path).extractall(extract_dir)
\* in the temporary directory; BadZipFile for bytes that are no archive.
Extract ==
    /\ install_pc = "extract"
    /\ IF _download_bytes(call.response).raw = ZipBody
       THEN /\ call' = [call EXCEPT !.extracted = TRUE]
            /\ install_pc' = "build"
            /\ UNCHANGED ret
       ELSE /\ install_pc' = "failed"
            /\ ret' = Returned(InstallError("BadZipFile", "", "", "", ""))
            /\ UNCHANGED call
    /\ UNCHANGED <<live, old_install, built_repo, staging, backup, same_fs, otherThanInstall>>

\* What install_from_github_zip builds from the extracted bundle.
build_repo(bundle) ==
    IF bundle.manifest # "none"
    THEN _build_repo_from_manifest(bundle)
    ELSE _build_repo_by_discovery(bundle)

\* install_from_github_zip: the build of built_repo in a temporary directory,
\* from the manifest when there is one and by discovery otherwise.
BuildRepo ==
    /\ install_pc = "build"
    /\ IF build_repo(call.response.bundle).raised
       THEN /\ install_pc' = "failed"
            /\ ret' = Returned(build_repo(call.response.bundle).error)
            /\ UNCHANGED built_repo
       ELSE /\ install_pc' = "copytree"
            /\ built_repo' = build_repo(call.response.bundle).built
            /\ UNCHANGED ret
    /\ UNCHANGED <<call, live, old_install, staging, backup, same_fs, otherThanInstall>>

\* shutil.copytree(src, staging), one file at a time.
CopyToStaging ==
    /\ install_pc = "copytree"
    /\ IF staging.files = built_repo /\ staging.exists
       THEN install_pc' = "move_dst" /\ UNCHANGED staging
       ELSE /\ \E f \in built_repo \ staging.files : staging' = Dir(staging.files \cup {f})
            /\ UNCHANGED install_pc
    /\ UNCHANGED <<live, old_install, built_repo, backup, same_fs, codecVars, otherThanInstall>>

\* shutil.move(dst, backup): a rename on one filesystem, else copytree to
\* backup followed by rmtree of dst, one file at a time.
MoveDstToBackup ==
    /\ install_pc = "move_dst"
    /\ IF same_fs
       THEN backup' = live /\ live' = NoDir /\ install_pc' = "move_staging"
       ELSE IF ~backup.exists \/ backup.files # old_install
       THEN /\ \E f \in (old_install \ backup.files) \cup {"<mkdir>"} :
                 backup' = Dir(backup.files \cup ({f} \cap old_install))
            /\ backup' # backup
            /\ UNCHANGED <<live, install_pc>>
       ELSE IF live.files # {}
       THEN /\ \E f \in live.files : live' = Dir(live.files \ {f})
            /\ UNCHANGED <<backup, install_pc>>
       ELSE live' = NoDir /\ install_pc' = "move_staging" /\ UNCHANGED backup
    /\ UNCHANGED <<old_install, built_repo, staging, same_fs, codecVars, otherThanInstall>>

\* shutil.move(staging, dst): a rename on one filesystem, else copytree to dst
\* followed by rmtree of staging.
MoveStagingToDst ==
    /\ install_pc = "move_staging"
    /\ IF same_fs
       THEN live' = staging /\ staging' = NoDir /\ install_pc' = "cleanup"
       ELSE IF ~live.exists \/ live.files # built_repo
       THEN /\ \E f \in (built_repo \ live.files) \cup {"<mkdir>"} :
                 live' = Dir(live.files \cup ({f} \cap built_repo))
            /\ live' # live
            /\ UNCHANGED <<staging, install_pc>>
       ELSE staging' = NoDir /\ install_pc' = "cleanup" /\ UNCHANGED live
    /\ UNCHANGED <<old_install, built_repo, backup, same_fs, codecVars, otherThanInstall>>

\* Leaving the TemporaryDirectory block of _atomic_replace_dir normally.
Cleanup ==
    /\ install_pc = "cleanup"
    /\ staging' = NoDir
    /\ backup' = NoDir
    /\ install_pc' = "done"
    /\ ret' = Returned(NoError)
    /\ UNCHANGED <<call, live, old_install, built_repo, same_fs, otherThanInstall>>

\* A step of _atomic_replace_dir raises (OSError of copytree or move): the
\* TemporaryDirectory is removed with staging and backup in it, and the
\* exception leaves install_from_github_zip.
StepRaises ==
    /\ install_pc \in {"copytree", "move_dst", "move_staging"}
    /\ staging' = NoDir
    /\ backup' = NoDir
    /\ install_pc' = "failed"
    /\ ret' = Returned(InstallError("OSError", "", "", "", ""))
    /\ UNCHANGED <<call, live, old_install, built_repo, same_fs, otherThanInstall>>

NextInstall ==
    \/ Download \/ AssertIsZip \/ Extract \/ BuildRepo
    \/ CopyToStaging \/ MoveDstToBackup \/ MoveStagingToDst \/ Cleanup \/ StepRaises

SpecInstall == InitInstall /\ [][NextInstall]_vars

\* C4: while and after an install runs, repo_dir() is the complete previous
\* install or the complete new one, never missing or partial; and after a
\* failed install it is the previous install.
C4_InstallAtomic ==
    /\ live.exists
    /\ live.files = old_install \/ live.files = built_repo
    /\ install_pc = "failed" => live.files = old_install

\* A manifest item the build hashes and finds changed: an object with a
\* folder whose plugin.py exists, carrying a sha256 that is not the digest
\* of that file.
HashMismatch(it, plugins) ==
    /\ it.is_dict
    /\ it.folder # ""
    /\ it.sha256 # ""
    /\ plugins[it.folder] # NoFile
    /\ _sha256_file(plugins[it.folder]) # sha_strip_lower(it.sha256)

\* A manifest item the build cannot install.
Faulty(it, plugins) ==
    /\ it.is_dict
    /\ it.folder # ""
    /\ plugins[it.folder] = NoFile \/ HashMismatch(it, plugins)

BuildHasRun ==
    /\ call.op = "install_from_github_zip"
    /\ call.extracted
    /\ install_pc # "build"

\* C11: once the build of a bundle with a manifest has run, an item whose
\* sha256 is not the SHA-256 of its plugin.py has made the install fail with
\* the previous install still live and nothing built or staged; and when it
\* is the first item that cannot be installed, the error raised is the
\* integrity error naming the item's id (its folder when it has no id), the
\* expected hash and the hash obtained.
C11_ManifestHashEnforced ==
    (BuildHasRun /\ call.response.bundle.manifest = "items") =>
        \A i \in 1..Len(call.response.bundle.items) :
            HashMismatch(call.response.bundle.items[i], call.response.bundle.plugins) =>
                /\ install_pc = "failed"
                /\ live = Dir(old_install)
                /\ built_repo = {}
                /\ staging = NoDir
                /\ (\A j \in 1..(i - 1) :
                        ~Faulty(call.response.bundle.items[j], call.response.bundle.plugins))
                   => ret = Returned(InstallError(
                          "sha256", "",
                          IF call.response.bundle.items[i].id # ""
                          THEN call.response.bundle.items[i].id
                          ELSE call.response.bundle.items[i].folder,
                          sha_strip_lower(call.response.bundle.items[i].sha256),
                          _sha256_file(call.response.bundle.plugins[
                              call.response.bundle.items[i].folder])))

\* An install over a previous one failed on the changed plugin.py of
\* kirikiri.ks, the second item of its manifest.
C11_Witness ==
    /\ call.op = "install_from_github_zip"
    /\ install_pc = "failed"
    /\ ret = Returned(InstallError("sha256", "", "kirikiri.ks",
                                   _sha256_file(<<1>>), _sha256_file(<<2>>)))
    /\ Len(call.response.bundle.items) = 2
    /\ call.response.bundle.items[2].id = "kirikiri.ks"
    /\ old_install # {}
    /\ live = Dir(old_install)

\* C12: a body handed over by the download that does not start with the
\* two bytes "PK" makes _assert_is_zip raise an error that names the zip
\* URL, under every status urlopen returns a body for; whatever the status,
\* an answer with such a body is never extracted and leaves the previous
\* install live.
C12_ZipCheckPrecedesUnpacking ==
    (/\ call.op = "install_from_github_zip"
     /\ install_pc \notin {"idle", "assert_is_zip"}
     /\ ~StartsWith(call.response.body, <<80, 75>>)) =>
        /\ install_pc = "failed"
        /\ ~call.extracted
        /\ live = Dir(old_install)
        /\ staging = NoDir
        /\ ret.done
        /\ ~_download_bytes(call.response).raised =>
               /\ ret.val.kind \in {"not_a_zip", "too_small"}
               /\ ret.val.url = zip_url

\* An HTML page answered under status 203 over a previous install was
\* rejected by the signature check.
C12_Witness ==
    /\ call.op = "install_from_github_zip"
    /\ call.response.status = 203
    /\ call.response.body = HtmlBody
    /\ install_pc = "failed"
    /\ ret = Returned(InstallError("not_a_zip", zip_url, "", "", ""))
    /\ ~call.extracted
    /\ old_install # {}
    /\ live = Dir(old_install)

(***************************************************************************)
(* SpecRoundtrip: a text is parsed through the adapter, possibly edited,   *)
(* and rebuilt.  call names the adapter's engine and the last call made.   *)
(***************************************************************************)
RoundtripChars == {97, LF, 233}

RoundtripTexts == SeqUpTo(RoundtripChars, MaxTextLen)

\* project["encoding"]: what save_project writes, and what older project
\* files hold.
AdapterEncodings == {"auto", "cp932", "windows-1252", "utf-16"}

InitRoundtrip ==
    /\ call \in {[op |-> "none", engine |-> k] : k \in EngineKinds}
    /\ ret = Pending
    /\ IdleRegistry
    /\ IdleSelector
    /\ IdleInstall
    /\ IdleLater
    /\ disk = <<>>
    /\ project_encoding \in AdapterEncodings
    /\ state_file = NoStateFile
    /\ tab \in {[ClosedTab EXCEPT !.open = TRUE, !.text = t] : t \in RoundtripTexts}
    /\ open_log = <<>>

AdapterParse ==
    /\ call.op = "none"
    /\ tab' = [tab EXCEPT !.entries = adapter_parse(project_encoding, tab.text)]
    /\ call' = [call EXCEPT !.op = "parse"]
    /\ UNCHANGED <<ret, registryVars, selectorVars, installVars, laterVars,
                   disk, project_encoding, state_file, open_log>>

\* EditSession.commit of a changed line: the entry gets the new translation.
CommitEdit ==
    /\ call.op = "parse"
    /\ tab.entries # <<>>
    /\ tab.entries[1].translation = <<>>
    /\ tab' = [tab EXCEPT !.entries[1].translation = <<98>>,
                          !.entries[1].last_committed = <<98>>, !.dirty = TRUE]
    /\ UNCHANGED <<codecVars, registryVars, selectorVars, installVars, laterVars,
                   disk, project_encoding, state_file, open_log>>

AdapterRebuild ==
    /\ call.op = "parse"
    /\ ret' = Returned(adapter_rebuild(call.engine, project_encoding, tab.text, tab.entries))
    /\ call' = [call EXCEPT !.op = "rebuild"]
    /\ UNCHANGED <<registryVars, selectorVars, installVars, laterVars, projectVars>>

NextRoundtrip == AdapterParse \/ CommitEdit \/ AdapterRebuild

SpecRoundtrip == InitRoundtrip /\ [][NextRoundtrip]_vars

\* C1: rebuilding the entries of parse(ctx, original_text), none of them
\* edited, returns exactly ctx.original_text.
C1_RoundTripIdentity ==
    (call.op = "rebuild"
     /\ \A i \in DOMAIN tab.entries :
           tab.entries[i].translation = <<>> /\ tab.entries[i].last_committed = <<>>)
    => ret.val = tab.text

(***************************************************************************)
(* SpecExport: one call of FileTab.export_to_disk.                         *)
(***************************************************************************)
ExportCalls ==
    [op : {"export_to_disk"}, project : ExportProjects, parser : ParserKinds,
     out : RebuildOutcomes, linesep : LineSeps]

InitExport ==
    /\ call \in ExportCalls
    /\ ret = Pending
    /\ IdleRegistry
    /\ IdleSelector
    /\ IdleProject
    /\ IdleInstall
    /\ IdleLater

ExportToDisk ==
    /\ call.op = "export_to_disk"
    /\ ret = Pending
    /\ ret' = Returned(export_to_disk(call.project, call.parser, call.out, call.linesep))
    /\ UNCHANGED <<call, registryVars, selectorVars, projectVars, installVars, laterVars>>

NextExport == ExportToDisk

SpecExport == InitExport /\ [][NextExport]_vars

\* C17: when rebuild returned bytes the export file holds exactly those
\* bytes, and when it returned a str the export file holds that str encoded
\* with the output encoding of the project settings, export_encoding.
C17_RebuildOutputHandling ==
    (ret.done /\ call.op = "export_to_disk" /\ call.parser = "handler") =>
        /\ call.out.type = "bytes" =>
               ret.val.file = [exists |-> TRUE, data |-> call.out.data]
        /\ call.out.type = "str" =>
               ret.val.file = [exists |-> TRUE,
                               data |-> PyEncode(call.out.data, PyCodec(call.project.export_encoding))]

\* C18: when rebuild raised, or returned neither a str nor bytes, the call
\* raises, there is no export file, and no path is returned.
C18_RebuildFailuresSurface ==
    (/\ ret.done
     /\ call.op = "export_to_disk"
     /\ call.parser = "handler"
     /\ call.out.type \in {"raises", "other"}) =>
        /\ ret.val.raised
        /\ ret.val.file = NotWritten
        /\ ret.val.out_path = ""

\* An export whose rebuild returned None has raised the type error.
C18_Witness ==
    /\ ret.done
    /\ call.op = "export_to_disk"
    /\ call.parser = "handler"
    /\ call.out.type = "other"
    /\ ret.val = ExportRaises("RuntimeError: type")

(***************************************************************************)
(* SpecEntries: one call of new_entry.                                     *)
(***************************************************************************)
NewEntryCalls ==
    [op : {"new_entry"}, original : SeqUpTo({97, 12354}, MaxTextLen),
     translation : {<<>>, <<98>>}, status : StatusArgs]

InitEntries ==
    /\ call \in NewEntryCalls
    /\ ret = Pending
    /\ IdleRegistry
    /\ IdleSelector
    /\ IdleProject
    /\ IdleInstall
    /\ IdleLater

NewEntry ==
    /\ call.op = "new_entry"
    /\ ret = Pending
    /\ ret' = Returned(new_entry(call.original, call.translation, call.status))
    /\ UNCHANGED <<call, registryVars, selectorVars, projectVars, installVars, laterVars>>

NextEntries == NewEntry

SpecEntries == InitEntries /\ [][NextEntries]_vars

\* C19: the status of the entry new_entry returns is one of untranslated,
\* in_progress, translated and reviewed, whatever was passed as status.
C19_StatusCanonical ==
    (ret.done /\ call.op = "new_entry") =>
        ret.val.status \in {"untranslated", "in_progress", "translated", "reviewed"}


(***************************************************************************)
(* SpecReload: one thread in reload_parsers and one thread that takes the   *)
(* manager from get_parser_manager() and calls get_parser on it. The code   *)
(* takes no lock, so the two threads' statements interleave.                *)
(***************************************************************************)

\* The engine ids be.get knows.
EngineIds == {"kirikiri.ks", "txt"}

\* ParserManager._ensure_backend: the backend already built, else one built
\* from the sekai_parsers package the repository on disk holds now.
_ensure_backend(backend, repo) == IF backend # 0 THEN backend ELSE repo

\* ParserManager.get_parser on a manager with this _backend and _cache: the
\* adapter returned (the generation of the engine it wraps), and the
\* manager's _backend and _cache afterwards.
get_parser(backend, cache, repo, parser_id) ==
    IF \E g \in 1..(MaxManagers + 1) : <<parser_id, g>> \in cache
    THEN [adapter |-> CHOOSE g \in 1..(MaxManagers + 1) : <<parser_id, g>> \in cache,
          backend |-> backend,
          cache   |-> cache]
    ELSE LET be == _ensure_backend(backend, repo)
         IN  [adapter |-> be,
              backend |-> be,
              cache   |-> cache \cup {<<parser_id, be>>}]

\* ParsersRepository.ensure_repo: the newest handler set is installed in the
\* repository directory.
ensure_repo(repo) == repo + 1

InitReload ==
    /\ IdleCodec
    /\ IdleRegistry
    /\ IdleSelector
    /\ IdleProject
    /\ IdleInstall
    /\ IdleLater

\* get_parser_manager(): the singleton, made first when there is none.
GetParserManager ==
    /\ IF _PARSER_MANAGER_SINGLETON # 0
       THEN /\ held' = _PARSER_MANAGER_SINGLETON
            /\ UNCHANGED <<_PARSER_MANAGER_SINGLETON, created>>
       ELSE /\ created < MaxManagers
            /\ created' = created + 1
            /\ _PARSER_MANAGER_SINGLETON' = created + 1
            /\ held' = created + 1
    /\ seen' = <<>>
    /\ UNCHANGED <<_backend, _cache, repo_gen, reload_pc, reload_mgr, otherThanManager>>

\* mgr.get_parser(parser_id) on the manager the second thread holds.
GetParser ==
    /\ held # 0
    /\ Len(seen) < MaxCalls
    /\ \E parser_id \in EngineIds :
        LET r == get_parser(_backend[held], _cache[held], repo_gen, parser_id)
        IN  /\ _backend' = [_backend EXCEPT ![held] = r.backend]
            /\ _cache' = [_cache EXCEPT ![held] = r.cache]
            /\ seen' = Append(seen, [id |-> parser_id, adapter |-> r.adapter])
    /\ UNCHANGED <<_PARSER_MANAGER_SINGLETON, created, repo_gen, reload_pc, reload_mgr,
                   held, otherThanManager>>

\* reload_parsers: get_parser_manager(force_reload=True) assigns a new
\* ParserManager to the singleton and returns it.
ForceReload ==
    /\ reload_pc = "idle"
    /\ created < MaxManagers
    /\ created' = created + 1
    /\ _PARSER_MANAGER_SINGLETON' = created + 1
    /\ reload_mgr' = created + 1
    /\ reload_pc' = "ensure_repo"
    /\ UNCHANGED <<_backend, _cache, repo_gen, held, seen, otherThanManager>>

\* mgr.update_repo_from_github: ensure_repo and ensure_importable, which
\* may raise (reload_parsers swallows the exception and returns).
EnsureRepo ==
    /\ reload_pc = "ensure_repo"
    /\ \E raised \in BOOLEAN :
        IF raised
        THEN reload_pc' = "idle" /\ UNCHANGED repo_gen
        ELSE reload_pc' = "reset_backend" /\ repo_gen' = ensure_repo(repo_gen)
    /\ UNCHANGED <<_PARSER_MANAGER_SINGLETON, _backend, _cache, created, reload_mgr,
                   held, seen, otherThanManager>>

\* mgr.update_repo_from_github: self._backend = None.
ResetBackend ==
    /\ reload_pc = "reset_backend"
    /\ _backend' = [_backend EXCEPT ![reload_mgr] = 0]
    /\ reload_pc' = "clear_cache"
    /\ UNCHANGED <<_PARSER_MANAGER_SINGLETON, _cache, created, repo_gen, reload_mgr,
                   held, seen, otherThanManager>>

\* mgr.update_repo_from_github: self._cache.clear().
ClearCache ==
    /\ reload_pc = "clear_cache"
    /\ _cache' = [_cache EXCEPT ![reload_mgr] = {}]
    /\ reload_pc' = "idle"
    /\ UNCHANGED <<_PARSER_MANAGER_SINGLETON, _backend, created, repo_gen, reload_mgr,
                   held, seen, otherThanManager>>

NextReload ==
    \/ GetParserManager
    \/ GetParser
    \/ ForceReload
    \/ EnsureRepo
    \/ ResetBackend
    \/ ClearCache

SpecReload == InitReload /\ [][NextReload]_vars

\* A manager another caller can reach: the singleton, or the one the second
\* thread holds.
Reachable(m) == m = _PARSER_MANAGER_SINGLETON \/ m = held

\* C23: a reload is a snapshot swap. No step clears or rebuilds the backend
\* or empties the cache of a manager that other callers can reach, and the
\* adapters one caller got from one manager all wrap the same handler set.
C23_ReloadIsSnapshotSwap ==
    /\ [][\A m \in 1..MaxManagers :
            Reachable(m) =>
                /\ _backend[m] # 0 => _backend'[m] = _backend[m]
                /\ _cache[m] \subseteq _cache'[m]]_vars
    /\ [](\A i, j \in DOMAIN seen : seen[i].adapter = seen[j].adapter)


(***************************************************************************)
(* SpecCancel: one call of install_from_github_zip, as in SpecInstall, and  *)
(* a user who may ask to cancel it before the bundle has been read.         *)
(***************************************************************************)

InitCancel ==
    /\ InitInstall
    /\ same_fs

\* The user asks to cancel while the download has not been read yet.
RequestCancel ==
    /\ install_pc = "idle"
    /\ ret = Pending
    /\ ~cancel_requested
    /\ cancel_requested' = TRUE
    /\ UNCHANGED <<codecVars, registryVars, selectorVars, projectVars, installVars,
                   otherThanCancel>>

NextCancel == NextInstall \/ RequestCancel

SpecCancel == InitCancel /\ [][NextCancel]_vars

\* C24: once cancellation has been requested, the download reads nothing
\* more and the install is abandoned: the installer goes no further than the
\* download, and repo_dir() stays the previous install.
C24_CancelAbandonsInstall ==
    cancel_requested =>
        /\ install_pc \in {"idle", "failed"}
        /\ live = Dir(old_install)


(***************************************************************************)
(* SpecAtomicWrite: one call of save_file_state over a state file that is   *)
(* absent, unreadable or an earlier payload; every step of                  *)
(* _atomic_write_json either succeeds or raises.                            *)
(***************************************************************************)

\* The temp file as mkstemp leaves it, and after a json.dump that raised
\* part-way.
EmptyTmp == [NoStateFile EXCEPT !.kind = "empty"]

PartialTmp == [NoStateFile EXCEPT !.kind = "partial"]

remove_tmp_never(tmp) == tmp

\* The finally clause of _atomic_write_json: os.remove(tmp) when it exists.
remove_tmp(tmp) ==
    IF tmp.kind # "absent" THEN NoStateFile ELSE tmp

\* The payload of the running call.
payload == save_file_state(call.entries, call.encoding, call.newline_style, call.had_bom)

InitAtomicWrite ==
    /\ state_file \in {NoStateFile, CorruptStateFile}
                      \cup {save_file_state(ents, "utf-8", NL_LF, FALSE) : ents \in EntryLists}
    /\ call \in [op : {"save_file_state"}, entries : EntryLists, encoding : StoreEncodings,
                 newline_style : {NL_LF, NL_CRLF}, had_bom : BOOLEAN, previous : {state_file}]
    /\ ret = Pending
    /\ IdleRegistry
    /\ IdleSelector
    /\ disk = <<>>
    /\ project_encoding = "auto"
    /\ tab = ClosedTab
    /\ open_log = <<>>
    /\ IdleInstall
    /\ IdleLater

otherThanAtomicWrite ==
    <<call, registryVars, selectorVars, disk, project_encoding, tab, open_log, installVars,
      otherThanWrite>>

\* _ensure_dir(d) and tempfile.mkstemp(prefix=".tmp_", dir=d), before the try.
Mkstemp ==
    /\ write_pc = "idle"
    /\ \E raised \in BOOLEAN :
        IF raised
        THEN write_pc' = "failed" /\ ret' = Returned("mkstemp") /\ UNCHANGED tmp_file
        ELSE write_pc' = "dump" /\ tmp_file' = EmptyTmp /\ UNCHANGED ret
    /\ UNCHANGED <<state_file, otherThanAtomicWrite>>

\* json.dump(payload, f): the whole payload is written, or it raises with
\* nothing or a part of it written.
JsonDump ==
    /\ write_pc = "dump"
    /\ \/ write_pc' = "fsync" /\ tmp_file' = payload /\ UNCHANGED ret
       \/ /\ write_pc' = "finally"
          /\ tmp_file' \in {EmptyTmp, PartialTmp}
          /\ ret' = Returned("json.dump")
    /\ UNCHANGED <<state_file, otherThanAtomicWrite>>

\* f.flush(), os.fsync(f.fileno()) and the close of the with block.
FlushFsync ==
    /\ write_pc = "fsync"
    /\ \E raised \in BOOLEAN :
        IF raised
        THEN write_pc' = "finally" /\ ret' = Returned("fsync")
        ELSE write_pc' = "replace" /\ UNCHANGED ret
    /\ UNCHANGED <<state_file, tmp_file, otherThanAtomicWrite>>

\* os.replace(tmp, path).
OsReplace ==
    /\ write_pc = "replace"
    /\ \E raised \in BOOLEAN :
        IF raised
        THEN write_pc' = "finally" /\ ret' = Returned("os.replace") /\ UNCHANGED <<state_file, tmp_file>>
        ELSE /\ write_pc' = "finally"
             /\ state_file' = tmp_file
             /\ tmp_file' = NoStateFile
             /\ ret' = Returned("None")
    /\ UNCHANGED otherThanAtomicWrite

\* The finally clause, after which the call returns or the exception goes on.
Finally ==
    /\ write_pc = "finally"
    /\ tmp_file' = remove_tmp(tmp_file)
    /\ write_pc' = IF ret.val = "None" THEN "done" ELSE "failed"
    /\ UNCHANGED <<ret, state_file, otherThanAtomicWrite>>

NextAtomicWrite == Mkstemp \/ JsonDump \/ FlushFsync \/ OsReplace \/ Finally

SpecAtomicWrite == InitAtomicWrite /\ [][NextAtomicWrite]_vars

Absent == [state |-> "absent", plugin_id |-> "", name |-> "", callables |-> FALSE]

Raises == [Absent EXCEPT !.state = "raises"]

Obj(plugin_id, name, callables) ==
    [state |-> "object", plugin_id |-> plugin_id, name |-> name, callables |-> callables]

GoodPlugin == Obj("kirikiri.ks", "KiriKiri", TRUE)

BlankIdPlugin == Obj(" ", "KiriKiri", TRUE)

NoNamePlugin == Obj("kirikiri.ks", "", TRUE)

NoRebuildPlugin == Obj("kirikiri.ks", "KiriKiri", FALSE)

\* str.strip() on the plugin ids and names above.
str_strip(x) ==
    IF x = " " THEN "" ELSE x

\* preferred_class_names of _plugin_from_module.
preferred_class_names == <<"KirikiriKsPlugin", "PlainTextPlugin", "Plugin", "Parser">>

\* inspect.getmembers(mod, inspect.isclass): the module's classes sorted by name.
getmembers == <<"Alpha", "KirikiriKsPlugin", "Parser", "PlainTextPlugin", "Plugin">>

ClassNames == {getmembers[i] : i \in DOMAIN getmembers}

Modules ==
    [get_plugin : {Absent, Raises, GoodPlugin, NoRebuildPlugin, BlankIdPlugin},
     PLUGIN     : {Absent, GoodPlugin, NoNamePlugin},
     classes    : [ClassNames -> {Absent, Raises, GoodPlugin, BlankIdPlugin}]]

\* _looks_like_parser_plugin(obj), obj being None for an absent attribute.
_looks_like_parser_plugin(obj) ==
    /\ obj.state = "object"
    /\ str_strip(obj.plugin_id) # ""
    /\ str_strip(obj.name) # ""
    /\ obj.callables

\* _safe_instantiate(cls): the instance, or None when cls is not a class or
\* its constructor raises.
_safe_instantiate(cls) ==
    IF cls.state = "object" THEN cls ELSE Absent

NotFound == [found |-> FALSE, from |-> "", plugin |-> Absent]

Found(from, plugin) == [found |-> TRUE, from |-> from, plugin |-> plugin]

\* The two class loops of _plugin_from_module: the first name of names
\* whose class instantiates to something that looks like a plugin.
RECURSIVE first_class(_, _, _)
first_class(mod, names, i) ==
    IF i > Len(names) THEN NotFound
    ELSE IF _looks_like_parser_plugin(_safe_instantiate(mod.classes[names[i]]))
    THEN Found(names[i], _safe_instantiate(mod.classes[names[i]]))
    ELSE first_class(mod, names, i + 1)

_plugin_from_module_instanceFirst(mod) ==
    IF _looks_like_parser_plugin(mod.PLUGIN)
    THEN Found("PLUGIN", mod.PLUGIN)
    ELSE IF _looks_like_parser_plugin(mod.get_plugin)
    THEN Found("get_plugin", mod.get_plugin)
    ELSE IF first_class(mod, preferred_class_names, 1).found
    THEN first_class(mod, preferred_class_names, 1)
    ELSE first_class(mod, getmembers, 1)

\* _plugin_from_module(mod).
_plugin_from_module(mod) ==
    IF mod.get_plugin.state # "absent" /\ _looks_like_parser_plugin(mod.get_plugin)
    THEN Found("get_plugin", mod.get_plugin)
    ELSE IF _looks_like_parser_plugin(mod.PLUGIN)
    THEN Found("PLUGIN", mod.PLUGIN)
    ELSE IF first_class(mod, preferred_class_names, 1).found
    THEN first_class(mod, preferred_class_names, 1)
    ELSE first_class(mod, getmembers, 1)

LoaderRaises(kind) == [raised |-> kind, from |-> "", plugin |-> Absent]

\* load_plugin_from_plugin_py(plugin_py, unique_name=...).
load_plugin_from_plugin_py(exists, mod) ==
    IF ~exists THEN LoaderRaises("FileNotFoundError")
    ELSE IF ~_plugin_from_module(mod).found THEN LoaderRaises("RuntimeError")
    ELSE IF str_strip(_plugin_from_module(mod).plugin.plugin_id) = ""
    THEN LoaderRaises("RuntimeError")
    ELSE [raised |-> "", from |-> _plugin_from_module(mod).from,
          plugin |-> _plugin_from_module(mod).plugin]

(***************************************************************************)
(* SpecLoader: one call of load_plugin_from_plugin_py on a module.          *)
(***************************************************************************)
InitLoader ==
    /\ call \in [op : {"load_plugin_from_plugin_py"}, exists : BOOLEAN, mod : Modules]
    /\ ret = Pending
    /\ IdleRegistry
    /\ IdleSelector
    /\ IdleProject
    /\ IdleInstall
    /\ IdleLater

LoadPlugin ==
    /\ ret = Pending
    /\ ret' = Returned(load_plugin_from_plugin_py(call.exists, call.mod))
    /\ UNCHANGED <<call, registryVars, selectorVars, projectVars, installVars, laterVars>>

NextLoader == LoadPlugin

SpecLoader == InitLoader /\ [][NextLoader]_vars

\* The steps in the order of resolution, and what each yields for a module:
\* the object, or nothing when the step is absent or raises.
StepOrder ==
    <<"get_plugin", "PLUGIN", "KirikiriKsPlugin", "PlainTextPlugin", "Plugin", "Parser", "Alpha">>

Yield(mod, step) ==
    IF step = "get_plugin" THEN mod.get_plugin
    ELSE IF step = "PLUGIN" THEN mod.PLUGIN
    ELSE mod.classes[step]

Conforms(mod, step) ==
    /\ Yield(mod, step).state = "object"
    /\ Yield(mod, step).plugin_id \notin {"", " "}
    /\ Yield(mod, step).name # ""
    /\ Yield(mod, step).callables

_alloc_id(next_id) ==
    [rid |-> next_id, next_id |-> next_id + 1]

\* q.put_nowait(msg) on a Queue(maxsize=1): Full is swallowed by the callers.
put_nowait(q, msg) ==
    IF q = NoMsg THEN msg ELSE q

\* _fail_all_pending(message): the queues after the synthetic error was put
\* on the queue of every pending request (the table is cleared by the caller
\* of this operator in the same step).
_fail_all_pending(queues, pending, err) ==
    [i \in DOMAIN queues |-> IF i \in pending THEN put_nowait(queues[i], err) ELSE queues[i]]

pop_keep(pending, req_id) ==
    pending

\* self._pending.pop(req_id, None), under _lock.
pop(pending, req_id) ==
    pending \ {req_id}

InitIpc ==
    /\ IdleCodec
    /\ IdleRegistry
    /\ IdleSelector
    /\ IdleProject
    /\ IdleInstall
    /\ IdleLater

restOfIpc == <<codecVars, registryVars, selectorVars, projectVars, installVars, otherThanIpc>>

\* start(): nothing when the process runs; else Popen, _running = True and
\* a new reader thread.
Start ==
    /\ ~(proc # 0 /\ alive[proc])
    /\ started < MaxProcs
    /\ started' = started + 1
    /\ proc' = started + 1
    /\ alive' = [alive EXCEPT ![started + 1] = TRUE]
    /\ _running' = TRUE
    /\ reader' = [reader EXCEPT ![started + 1] = "reading"]
    /\ UNCHANGED <<_next_id, _pending, queue, written, stdout, sender, restOfIpc>>

\* stop(): _running = False, the process is terminated and waited for (what
\* it had received and not answered is lost), _fail_all_pending("core
\* process stopped"), proc = None.
Stop ==
    /\ proc # 0
    /\ _running' = FALSE
    /\ alive' = [alive EXCEPT ![proc] = FALSE]
    /\ queue' = _fail_all_pending(queue, _pending, SyntheticError("core process stopped", proc))
    /\ _pending' = {}
    /\ written' = [written EXCEPT ![proc] = {}]
    /\ proc' = 0
    /\ UNCHANGED <<started, _next_id, stdout, reader, sender, restOfIpc>>

\* The core process exits by itself.
CoreExits ==
    \E g \in 1..MaxProcs :
        /\ alive[g]
        /\ alive' = [alive EXCEPT ![g] = FALSE]
        /\ written' = [written EXCEPT ![g] = {}]
        /\ UNCHANGED <<proc, started, _running, _next_id, _pending, queue, stdout,
                       reader, sender, restOfIpc>>

\* The core answers a request it has received, with the request's id.
CoreResponds ==
    \E g \in 1..MaxProcs : \E id \in written[g] :
        /\ alive[g]
        /\ written' = [written EXCEPT ![g] = @ \ {id}]
        /\ stdout' = [stdout EXCEPT ![g] = @ \cup {id}]
        /\ UNCHANGED <<proc, started, alive, _running, _next_id, _pending, queue,
                       reader, sender, restOfIpc>>

\* _read_stdout: one turn of the loop over the stdout of the process the
\* thread was started for.  When _running is False the loop is left (the
\* rest of the output is never read) and _fail_all_pending("core stdout
\* closed") follows; else the pending entry of the message's id is popped
\* and the message put on its queue.
ReaderReads ==
    \E g \in 1..MaxProcs : \E id \in stdout[g] :
        /\ reader[g] = "reading"
        /\ IF ~_running
           THEN /\ stdout' = [stdout EXCEPT ![g] = {}]
                /\ reader' = [reader EXCEPT ![g] = "exited"]
                /\ queue' = _fail_all_pending(queue, _pending,
                                              SyntheticError("core stdout closed", g))
                /\ _pending' = {}
           ELSE /\ stdout' = [stdout EXCEPT ![g] = @ \ {id}]
                /\ UNCHANGED reader
                /\ _pending' = pop(_pending, id)
                /\ queue' = IF id \in _pending
                            THEN [queue EXCEPT ![id] = put_nowait(@, Response(id, g))]
                            ELSE queue
        /\ UNCHANGED <<proc, started, alive, _running, _next_id, written, sender, restOfIpc>>

\* _read_stdout: the loop ends when the process has exited and its output
\* has been read; _fail_all_pending("core stdout closed") follows.
ReaderEof ==
    \E g \in 1..MaxProcs :
        /\ reader[g] = "reading"
        /\ ~alive[g]
        /\ stdout[g] = {}
        /\ queue' = _fail_all_pending(queue, _pending, SyntheticError("core stdout closed", g))
        /\ _pending' = {}
        /\ reader' = [reader EXCEPT ![g] = "exited"]
        /\ UNCHANGED <<proc, started, alive, _running, _next_id, written, stdout, sender, restOfIpc>>

\* send: the check that the core runs, and req_id = self._alloc_id().
SendBegin ==
    \E t \in Senders :
        /\ sender[t].pc \in {"idle", "returned", "raised"}
        /\ _next_id <= MaxRequests
        /\ IF proc = 0 \/ ~alive[proc]
           THEN /\ sender' = [sender EXCEPT ![t] =
                                [pc |-> "raised", req_id |-> 0, sent_to |-> 0,
                                 result |-> SendRaises("RuntimeError")]]
                /\ UNCHANGED _next_id
           ELSE /\ sender' = [sender EXCEPT ![t] =
                                [pc |-> "register", req_id |-> _alloc_id(_next_id).rid,
                                 sent_to |-> 0, result |-> NoMsg]]
                /\ _next_id' = _alloc_id(_next_id).next_id
        /\ UNCHANGED <<proc, started, alive, _running, _pending, queue, written,
                       stdout, reader, restOfIpc>>

\* send: self._pending[req_id] = _Pending(q=q), under _lock.
RegisterPending ==
    \E t \in Senders :
        /\ sender[t].pc = "register"
        /\ _pending' = _pending \cup {sender[t].req_id}
        /\ sender' = [sender EXCEPT ![t].pc = "write"]
        /\ UNCHANGED <<proc, started, alive, _running, _next_id, queue, written, stdout,
                       reader, restOfIpc>>

\* send: _write_line; when it raises the entry is popped and RuntimeError raised.
WriteLine ==
    \E t \in Senders :
        /\ sender[t].pc = "write"
        /\ IF proc = 0 \/ ~alive[proc]
           THEN /\ _pending' = pop(_pending, sender[t].req_id)
                /\ sender' = [sender EXCEPT ![t].pc = "raised",
                                            ![t].result = SendRaises("RuntimeError")]
                /\ UNCHANGED written
           ELSE /\ written' = [written EXCEPT ![proc] = @ \cup {sender[t].req_id}]
                /\ sender' = [sender EXCEPT ![t].pc = "waiting", ![t].sent_to = proc]
                /\ UNCHANGED _pending
        /\ UNCHANGED <<proc, started, alive, _running, _next_id, queue, stdout, reader, restOfIpc>>

\* send: q.get returns what was put on the request's queue.
QueueGet ==
    \E t \in Senders :
        /\ sender[t].pc = "waiting"
        /\ queue[sender[t].req_id] # NoMsg
        /\ sender' = [sender EXCEPT ![t].pc = "returned", ![t].result = queue[sender[t].req_id]]
        /\ queue' = [queue EXCEPT ![sender[t].req_id] = NoMsg]
        /\ UNCHANGED <<proc, started, alive, _running, _next_id, _pending, written,
                       stdout, reader, restOfIpc>>

\* send: q.get raises Empty after the timeout; the entry is popped and
\* TimeoutError raised.
Timeout ==
    \E t \in Senders :
        /\ sender[t].pc = "waiting"
        /\ queue[sender[t].req_id] = NoMsg
        /\ _pending' = pop(_pending, sender[t].req_id)
        /\ sender' = [sender EXCEPT ![t].pc = "raised", ![t].result = SendRaises("TimeoutError")]
        /\ UNCHANGED <<proc, started, alive, _running, _next_id, queue, written, stdout,
                       reader, restOfIpc>>

NextIpc ==
    \/ Start \/ Stop \/ CoreExits \/ CoreResponds
    \/ ReaderReads \/ ReaderEof
    \/ SendBegin \/ RegisterPending \/ WriteLine \/ QueueGet \/ Timeout

SpecIpc == InitIpc /\ [][NextIpc]_vars

\* C27: the ids taken by send calls are distinct and below _next_id, and a
\* send that has returned holds the core's message with its own id, or a
\* synthetic error caused by the stop or the exit of the process the
\* request was written to.
C27_RequestResponsePairing ==
    /\ \A t \in Senders : sender[t].req_id < _next_id
    /\ \A t, u \in Senders :
        (t # u /\ sender[t].req_id # 0) => sender[t].req_id # sender[u].req_id
    /\ \A t \in Senders :
        sender[t].pc = "returned" =>
            \/ sender[t].result.status = "ok" /\ sender[t].result.id = sender[t].req_id
            \/ sender[t].result.status = "error" /\ sender[t].result.cause = sender[t].sent_to


\* SpecIpcLive: SpecIpc in which the threads inside send and the reader
\* threads keep being scheduled: a step of theirs that stays possible is
\* eventually taken (q.get has a timeout, so Timeout stays possible while
\* the queue is empty).
SenderStep == RegisterPending \/ WriteLine \/ QueueGet \/ Timeout

ReaderStep == ReaderReads \/ ReaderEof

SpecIpcLive == SpecIpc /\ WF_vars(SenderStep) /\ WF_vars(ReaderStep)

InSend(t) == sender[t].pc \in {"register", "write", "waiting"}

EditTexts == {"", "a", "b"}

SelectedEntries ==
    [translation : {"", "a"}, status : {"untranslated", "translated", "reviewed"},
     _last_committed_translation : {"absent"}, _last_committed_status : {"absent"}]

\* EditSession.start: the entry with its _last_committed_* keys set when missing.
start_entry(e) ==
    [e EXCEPT !._last_committed_translation =
                  IF @ = "absent" THEN str_strip(e.translation) ELSE @,
              !._last_committed_status = IF @ = "absent" THEN e.status ELSE @]

\* EditSession.on_text_edited(lines): the entries afterwards.
on_text_edited(es, lines) ==
    [i \in DOMAIN es |->
        IF i > Len(lines) THEN es[i]
        ELSE [es[i] EXCEPT !.translation = lines[i],
                           !.status = IF str_strip(lines[i]) # "" THEN "in_progress"
                                      ELSE "untranslated"]]

\* should_commit of EditSession.commit for the entry at index i.
should_commit(es, changed, i) ==
    i \in changed \/ es[i].status = "in_progress"

\* EditSession.commit: the entries afterwards.
commit_entries(es, lines, changed) ==
    [i \in DOMAIN es |->
        IF i > Len(lines) \/ ~should_commit(es, changed, i) THEN es[i]
        ELSE [translation |-> str_strip(lines[i]),
              status |-> IF str_strip(lines[i]) # "" THEN "translated" ELSE "untranslated",
              _last_committed_translation |-> str_strip(lines[i]),
              _last_committed_status |->
                  IF str_strip(lines[i]) # "" THEN "translated" ELSE "untranslated"]]

\* EditSession.commit: changed_rows.
RECURSIVE commit_rows(_, _, _, _, _)
commit_rows(es, rs, lines, changed, i) ==
    IF i > Len(es) THEN <<>>
    ELSE IF i > Len(lines) \/ ~should_commit(es, changed, i)
    THEN commit_rows(es, rs, lines, changed, i + 1)
    ELSE <<rs[i]>> \o commit_rows(es, rs, lines, changed, i + 1)

InitEdit ==
    /\ IdleCodec
    /\ IdleRegistry
    /\ IdleSelector
    /\ IdleProject
    /\ IdleInstall
    /\ IdleLater

restOfEdit == <<codecVars, registryVars, selectorVars, projectVars, installVars, otherThanEdit>>

\* EditSession.start(entries, rows) over two rows of the table.
StartSession ==
    /\ ~_active
    /\ \E es \in [1..2 -> SelectedEntries] :
        /\ entries' = [i \in 1..2 |-> start_entry(es[i])]
        /\ entries_at_start' = [i \in 1..2 |-> start_entry(es[i])]
        /\ _current_lines' = [i \in 1..2 |-> es[i].translation]
    /\ rows' = <<5, 7>>
    /\ _changed_indices' = {}
    /\ _active' = TRUE
    /\ edited' = {}
    /\ committed' = [done |-> FALSE, changed_rows |-> <<>>]
    /\ UNCHANGED restOfEdit

\* TranslationEditor._on_text_changed after the user changed the text of
\* line k: every line of the document goes to on_text_edited.
OnTextEdited ==
    /\ _active
    /\ \E k \in DOMAIN _current_lines : \E text \in EditTexts \ {_current_lines[k]} :
        LET lines == [_current_lines EXCEPT ![k] = text]
        IN  /\ _current_lines' = lines
            /\ entries' = on_text_edited(entries, lines)
            /\ _changed_indices' = _changed_indices \cup (DOMAIN lines \cap DOMAIN entries)
            /\ edited' = edited \cup {k}
    /\ committed' = [done |-> FALSE, changed_rows |-> <<>>]
    /\ UNCHANGED <<rows, _active, entries_at_start, restOfEdit>>

\* EditSession.commit().
Commit ==
    /\ _active
    /\ entries' = commit_entries(entries, _current_lines, _changed_indices)
    /\ committed' = [done |-> TRUE,
                     changed_rows |-> commit_rows(entries, rows, _current_lines,
                                                  _changed_indices, 1)]
    /\ _changed_indices' = {}
    /\ UNCHANGED <<rows, _current_lines, _active, entries_at_start, edited, restOfEdit>>

\* EditSession.clear().
ClearSession ==
    /\ _active
    /\ entries' = <<>>
    /\ rows' = <<>>
    /\ _current_lines' = <<>>
    /\ _changed_indices' = {}
    /\ _active' = FALSE
    /\ UNCHANGED <<entries_at_start, edited, committed, restOfEdit>>

NextEdit == StartSession \/ OnTextEdited \/ Commit \/ ClearSession

SpecEdit == InitEdit /\ [][NextEdit]_vars

\* C29: in an active session, an entry whose line the user has not changed
\* keeps the translation and the status it had when the session started,
\* and a commit does not report its row.
C29_EditFrameCondition ==
    _active =>
        \A i \in DOMAIN entries :
            i \notin edited =>
                /\ entries[i].translation = entries_at_start[i].translation
                /\ entries[i].status = entries_at_start[i].status
                /\ committed.done =>
                    \A j \in DOMAIN committed.changed_rows : committed.changed_rows[j] # rows[i]


(***************************************************************************)
(* services/update_service.py.  SpecUpdate: one call of                     *)
(* download_and_install for a release whose installer and published hash    *)
(* file are given, and a user who may cancel while the files are fetched.   *)
(* Each file is served as one chunk (none for an empty file).               *)
(***************************************************************************)

\* expected of download_and_install: the first word of the hash file,
\* lower-cased, or "" when the file has no word.
expected_hash(text) == sha_strip_lower(text)

\* The check of download_and_install before the installer is started:
\* whether RuntimeError("SHA256 mismatch") is raised.
sha256_mismatch(expected, got) ==
    expected # "" /\ got # expected

InitUpdate ==
    /\ call \in [op : {"download_and_install"}, installer : Contents,
                 published : ShaValues \cup {_sha256_file(<<2>>)}]
    /\ ret = Pending
    /\ IdleRegistry
    /\ IdleSelector
    /\ IdleProject
    /\ IdleInstall
    /\ IdleLater

restOfUpdate == <<call, registryVars, selectorVars, projectVars, installVars, otherThanUpdate>>

\* download_and_install: mkdtemp and the first _download_file, up to its loop.
BeginDownloads ==
    /\ upd_pc = "idle"
    /\ ret = Pending
    /\ upd_pc' = "check"
    /\ current' = "exe"
    /\ exe_path' = <<>>
    /\ UNCHANGED <<ret, sha_path, cancel_flag, launched, restOfUpdate>>

\* The user cancels while the files are being fetched.
UserCancels ==
    /\ upd_pc \in {"check", "read"}
    /\ ~cancel_flag
    /\ cancel_flag' = TRUE
    /\ UNCHANGED <<ret, upd_pc, current, exe_path, sha_path, launched, restOfUpdate>>

\* _download_file: if cancel_cb and cancel_cb(): raise RuntimeError("cancelled").
CheckCancel ==
    /\ upd_pc = "check"
    /\ IF cancel_flag
       THEN upd_pc' = "raised" /\ ret' = Returned("cancelled")
       ELSE upd_pc' = "read" /\ UNCHANGED ret
    /\ UNCHANGED <<current, exe_path, sha_path, cancel_flag, launched, restOfUpdate>>

\* _download_file: chunk = r.read(chunk_size), written to the file; on the
\* empty chunk the loop ends, and download_and_install goes on to the hash
\* file or to the check.
ReadChunk ==
    /\ upd_pc = "read"
    /\ IF current = "exe"
       THEN IF exe_path = <<>>
            THEN upd_pc' = "check" /\ exe_path' = call.installer /\ UNCHANGED <<current, sha_path>>
            ELSE upd_pc' = "check" /\ current' = "sha" /\ sha_path' = "" /\ UNCHANGED exe_path
       ELSE IF sha_path = "" /\ call.published # ""
            THEN upd_pc' = "check" /\ sha_path' = call.published /\ UNCHANGED <<current, exe_path>>
            ELSE upd_pc' = "verify" /\ UNCHANGED <<current, exe_path, sha_path>>
    /\ UNCHANGED <<ret, cancel_flag, launched, restOfUpdate>>

\* download_and_install: expected is read from the hash file and, when it is
\* not empty, compared with the installer's digest; then
\* subprocess.Popen([exe_path]).
VerifyAndLaunch ==
    /\ upd_pc = "verify"
    /\ IF sha256_mismatch(expected_hash(sha_path), _sha256_file(exe_path))
       THEN upd_pc' = "raised" /\ ret' = Returned("SHA256 mismatch") /\ UNCHANGED launched
       ELSE upd_pc' = "done" /\ ret' = Returned("None") /\ launched' = TRUE
    /\ UNCHANGED <<current, exe_path, sha_path, cancel_flag, restOfUpdate>>

NextUpdate == BeginDownloads \/ UserCancels \/ CheckCancel \/ ReadChunk \/ VerifyAndLaunch

SpecUpdate == InitUpdate /\ [][NextUpdate]_vars

\* C30: the installer is started only when both files were fetched in full,
\* a hash was published, and the installer's SHA-256 equals it; a call that
\* was cancelled or found a mismatch has not started it.
C30_UpdateIntegrity ==
    /\ launched =>
        /\ exe_path = call.installer
        /\ sha_path = call.published
        /\ expected_hash(call.published) # ""
        /\ _sha256_file(call.installer) = expected_hash(call.published)
    /\ upd_pc = "raised" => ~launched

====
